---- MODULE Spec2Model ----
(***************************************************************************)
(* The rate-limited batch pipeline of Fortune5000Analyzer                  *)
(* (src/fortune5000-analysis.py) with its presets                          *)
(* (src/rate_limit_config.py).                                             *)
(*                                                                         *)
(* Time is counted in tenths of a second: 0.2 s is 2, 1.0 s is 10.  Every  *)
(* stored time is held relative to the present moment, which is 0: a       *)
(* timestamp taken d ago is -d, a sleep with d to go ends at d, and the     *)
(* passing of time shifts them all.  The pool threads run                  *)
(* analyze_single_stock for one ticker each; the main thread runs          *)
(* analyze_us_stocks and process_batch.                                    *)
(***************************************************************************)
EXTENDS Integers, Sequences, FiniteSets, TLC

\* ---------------------------------------------------------------- bounds
\* Length of the longest ticker universe explored.
NumTickers == 3
\* The presets' batch sizes (10..100) are cut to this many tickers, so that
\* a universe of NumTickers spans several batches.
MaxBatch == 2
\* A timestamp this old or older is held as -LongAgo: the code compares a
\* timestamp's age only with delays, of which the longest is shorter.
LongAgo == 60
\* Number of tickers of the batch explored under the running clock.
ThrottleTickers == 2
\* Length of the longest ticker universe that is sliced into batches.
MaxUniverse == 45

\* ------------------------------------------------------- rate_limit_config
RATE_LIMIT_CONFIG ==
    [max_retries |-> 3, exponential_backoff_base |-> 10]

PRESETS ==
    [aggressive |->
        [max_workers |-> 5, batch_size |-> 100,
         delay_range |-> <<2, 10>>, inter_batch_delay |-> <<10, 30>>],
     balanced |->
        [max_workers |-> 3, batch_size |-> 50,
         delay_range |-> <<5, 20>>, inter_batch_delay |-> <<20, 50>>],
     conservative |->
        [max_workers |-> 1, batch_size |-> 20,
         delay_range |-> <<10, 30>>, inter_batch_delay |-> <<50, 100>>],
     ultra_conservative |->
        [max_workers |-> 1, batch_size |-> 10,
         delay_range |-> <<20, 50>>, inter_batch_delay |-> <<100, 200>>]]

get_config_first(preset) ==
    IF preset \in DOMAIN PRESETS THEN PRESETS[preset]
    ELSE PRESETS["aggressive"]
get_config(preset) ==
    IF preset \in DOMAIN PRESETS THEN PRESETS[preset] ELSE PRESETS["balanced"]

\* random.uniform(lo, hi): the draws explored are the two ends of the range.
uniform(lo, hi) == {lo, hi}

Min(a, b) == IF a < b THEN a ELSE b

\* ------------------------------------------------------------ error texts
\* str(e) of an exception, as its sequence of characters.
Err429 == <<"H", "T", "T", "P", " ", "4", "2", "9">>
ErrRateLimited == <<"R", "a", "t", "e", " ", "L", "i", "m", "i", "t", "e", "d">>
Err401 == <<"H", "T", "T", "P", " ", "4", "0", "1">>
ErrorTexts == {Err429, ErrRateLimited, Err401}
NoError == <<>>

\* str.lower() on the characters that occur in ErrorTexts.
UpperLetters ==
    <<"A", "B", "C", "D", "E", "F", "G", "H", "I", "J", "K", "L", "M", "N",
       "O", "P", "Q", "R", "S", "T", "U", "V", "W", "X", "Y", "Z">>
LowerLetters ==
    <<"a", "b", "c", "d", "e", "f", "g", "h", "i", "j", "k", "l", "m", "n",
       "o", "p", "q", "r", "s", "t", "u", "v", "w", "x", "y", "z">>
LowerChar(c) ==
    IF \E i \in 1..26 : UpperLetters[i] = c
    THEN LowerLetters[CHOOSE i \in 1..26 : UpperLetters[i] = c]
    ELSE c
Lower(s) == [i \in 1..Len(s) |-> LowerChar(s[i])]

\* `pat in s` for strings.
Contains(s, pat) ==
    \E i \in 0..(Len(s) - Len(pat)) :
        \A j \in 1..Len(pat) : s[i + j] = pat[j]

Text429 == <<"4", "2", "9">>
TextRateLimit == <<"r", "a", "t", "e", " ", "l", "i", "m", "i", "t">>

IsRateLimitErrorAlways(e) == TRUE
\* The classification of line 289.
IsRateLimitError(e) ==
    Contains(e, Text429) \/ Contains(Lower(e), TextRateLimit)

\* ----------------------------------------------------------- price history
\* The closes of ticker.history(period="30d"), oldest first: nothing, one
\* bar, and changes of the last two closes by -12 %, -10 %, -1 %, -0.5 %,
\* -0.1 %, 0 % and +5 %.
Histories ==
    {<<>>, <<100>>, <<100, 88>>, <<100, 90>>, <<100, 99>>, <<200, 199>>,
     <<1000, 999>>, <<100, 100>>, <<100, 105>>}
\* The histories met in the batch runs.
RunHistories == {<<>>, <<100>>, <<100, 88>>, <<200, 199>>}
\* drop_threshold in tenths of a percent: the constructor's default (-10 %),
\* main's (-1 %) and test_rate_limiting's (-0.1 %).
Thresholds == {-100, -10, -1}

\* percent_change of line 343, in tenths of a percent; the division is exact
\* for every history of Histories.
PercentChange(hist) ==
    ((hist[Len(hist)] - hist[Len(hist) - 1]) * 1000) \div hist[Len(hist) - 1]

InsufficientIfEmpty(hist) == hist = <<>>
\* The test of line 322: hist.empty or len(hist) < 2.
Insufficient(hist) == hist = <<>> \/ Len(hist) < 2

QualifiesStrict(percent_change, threshold) == percent_change < threshold
\* The test of line 345.
Qualifies(percent_change, threshold) == percent_change <= threshold

\* ------------------------------------------------------- descriptive info
\* A value of the ticker.info dictionary: a number, a string, None (JSON
\* null), or the key is missing.
Str == [kind |-> "str", v |-> 0]
Num(n) == [kind |-> "num", v |-> n]
None == [kind |-> "none", v |-> 0]
Missing == [kind |-> "missing", v |-> 0]

\* ticker.info as the provider may return it: complete, without the keys,
\* or with the keys set to null.
Infos ==
    {[longName |-> Str, marketCap |-> Num(5)],
     [longName |-> Missing, marketCap |-> Missing],
     [longName |-> None, marketCap |-> None]}

\* dict.get(key, default): the default stands in only for a missing key.
Get(info, key, default) ==
    IF info[key].kind = "missing" THEN default ELSE info[key]
\* The info met in the batch runs.
RunInfos == {[longName |-> Str, marketCap |-> Num(5)]}

BackoffDelayLinear(attempt, jitter) ==
    RATE_LIMIT_CONFIG.exponential_backoff_base * (2 * attempt) + jitter
\* The backoff of line 291.
BackoffDelay(attempt, jitter) ==
    RATE_LIMIT_CONFIG.exponential_backoff_base * (2 ^ attempt) + jitter

Symbols == 1..NumTickers
\* The threads that call the wrapper: the pool's tasks, one per symbol, and
\* the main thread (get_stock_news).
Main == 0
Threads == Symbols \cup {Main}

VARIABLES
    \* Fortune5000Analyzer fields
    drop_threshold, rate_limit_preset, max_workers, batch_size, delay_range,
    inter_batch_delay, request_count, last_request_time, failed_requests,
    \* whether the model keeps the time: if not, a sleep just ends, after
    \* any time
    timing,
    \* what the provider may answer: its price histories and infos
    provider,
    \* us_public_tickers.csv: whether it can be read, and its symbols
    source,
    \* sys.argv[1:] of the process about to run
    argv,
    \* the Symbol column as read, get_fortune5000_tickers' result for it,
    \* and the result of filtering that result again
    all_tickers, valid_tickers, refiltered,
    \* analyze_single_stock past the threshold test: its locals
    calc,
    \* history: what an earlier, interrupted process had done
    prior,
    \* analyze_us_stocks / process_batch (main thread)
    mpc, tickers, batch_num, batch_results, dropped_stocks, processed_count,
    mwake,
    \* the pause drawn at line 530, and the slices processed so far (history)
    pause_delay, batches,
    \* history: the inter-batch sleeps begun
    pauses,
    \* the result phase: the table rows printed, the rows of the CSV file,
    \* whether the failure list was reported, and the index of the detail
    \* loop of line 578
    console, csv_rows, reported, detail_i,
    \* how often save_results_to_csv was called
    saves,
    \* one analyze_single_stock task per ticker
    task,
    \* history: throttle acquisitions made, and the spacing of the last one
    acquisitions, last_gap

config == <<drop_threshold, rate_limit_preset, max_workers, batch_size,
            delay_range, inter_batch_delay>>
mainv == <<mpc, tickers, batch_num, batch_results, dropped_stocks,
           processed_count, mwake>>
env == <<timing, provider, source, prior, argv, all_tickers, valid_tickers,
         refiltered, calc>>
loopv == <<pause_delay, batches, pauses>>
outv == <<console, csv_rows, reported, detail_i, saves>>
vars == <<config, request_count, last_request_time, failed_requests,
          env, mainv, loopv, outv, task, acquisitions, last_gap>>

\* The moment a sleep of d that starts now is over, and whether moment w has
\* come.
Until(d) == IF timing THEN d ELSE 0
Elapsed(w) == w <= 0
Max(a, b) == IF a > b THEN a ELSE b

\* A task: where its thread is (pc), the wrapper's locals (attempt, the end
\* of its sleep, the backoff delay drawn, the request_count it loaded, the
\* exception caught), fetch_stock_data's hist, and what the future holds
\* (result: <<>> for None, or the record).  History: which write of
\* last_request_time the task read (seen_stamp), how the task ended
\* (outcome), how often it stamped, invoked func and backed off, and the
\* provider's answers that fetch_stock_data returned with (resp: the
\* history, and the info if it was read), and under the running clock the
\* min_delay drawn for the acquisition under way (drawn).
IdleTask ==
    [pc |-> "idle", attempt |-> 0, wake |-> 0, delay |-> 0, reg |-> 0,
     error |-> NoError, hist |-> <<>>, result |-> <<>>, collected |-> FALSE,
     seen_stamp |-> 0, outcome |-> "none",
     stamps |-> 0, invocations |-> 0, backoffs |-> 0, resp |-> <<>>,
     drawn |-> 0]

\* The ticker file: unreadable, or readable with n valid symbols (n may
\* be 0).
Unreadable == [found |-> FALSE, symbols |-> <<>>]
Readable(n) == [found |-> TRUE, symbols |-> [i \in 1..n |-> i]]
Sources == {Unreadable} \cup {Readable(n) : n \in 0..NumTickers}

\* The locals of analyze_single_stock from line 345 on: hist and info, what
\* the indicator library would answer (lib), the two metric dictionaries and
\* the record returned (each <<>> until assigned).
NoCalc ==
    [stage |-> "off", hist |-> <<>>, info |-> <<>>, lib |-> <<>>,
     technical_indicators |-> <<>>, fundamental_ratios |-> <<>>,
     result |-> <<>>]

\* No process ran before this one.
NoPrior == [ran |-> FALSE, batches |-> <<>>, dropped_stocks |-> <<>>]

\* No Symbol column has been filtered, no metric is being computed, and
\* this is the first process.
NoColumn ==
    /\ prior = NoPrior
    /\ all_tickers = <<>>
    /\ valid_tickers = <<>>
    /\ refiltered = <<>>
    /\ calc = NoCalc

\* Fortune5000Analyzer.__init__, lines 45-52: the threshold and the preset's
\* bundle, with the batch size cut to cap.
Configure(cap) ==
    /\ drop_threshold \in Thresholds
    /\ rate_limit_preset \in DOMAIN PRESETS
    /\ max_workers = get_config(rate_limit_preset).max_workers
    /\ batch_size = Min(get_config(rate_limit_preset).batch_size, cap)
    /\ delay_range = get_config(rate_limit_preset).delay_range
    /\ inter_batch_delay = get_config(rate_limit_preset).inter_batch_delay

\* Lines 55-57, and a run that has not begun.
Fresh ==
    /\ request_count = 0
    /\ last_request_time = -LongAgo
    /\ failed_requests = <<>>
    /\ batch_num = 0
    /\ batch_results = <<>>
    /\ dropped_stocks = <<>>
    /\ processed_count = 0
    /\ mwake = 0
    /\ pause_delay = 0
    /\ pauses = 0
    /\ batches = <<>>
    /\ console = <<>>
    /\ csv_rows = <<>>
    /\ saves = 0
    /\ reported = FALSE
    /\ detail_i = 0
    /\ task = [s \in Threads |-> IdleTask]
    /\ acquisitions = 0
    /\ last_gap = 0

\* Fortune5000Analyzer.__init__ (37-61).
Construct == Configure(MaxBatch) /\ Fresh

\* main() (645-667): a fresh analyzer about to run analyze_us_stocks.
Init ==
    /\ Construct
    /\ drop_threshold = -10
    /\ provider = [histories |-> RunHistories, infos |-> RunInfos]
    /\ source \in Sources
    /\ argv = <<>>
    /\ NoColumn
    /\ timing = FALSE
    /\ mpc = "load"
    /\ tickers = <<>>

\* test_rate_limiting (30-62): process_batch is called on the first tickers
\* of the universe; here on a fresh analyzer, with the time kept.
InitThrottle ==
    /\ Construct
    /\ drop_threshold = -10
    /\ provider = [histories |-> RunHistories, infos |-> RunInfos]
    /\ timing = TRUE
    /\ mpc = "submit"
    /\ tickers = [i \in 1..Min(ThrottleTickers, batch_size) |-> i]
    /\ source = Readable(NumTickers)
    /\ argv = <<>>
    /\ NoColumn

\* test_rate_limiting (30-46): analyze_single_stock is about to be called
\* directly, on a fresh analyzer of any threshold, with the time kept.
InitSingle ==
    /\ Construct
    /\ provider = [histories |-> Histories, infos |-> Infos]
    /\ timing = TRUE
    /\ mpc = "direct"
    /\ tickers = <<1>>
    /\ source = Readable(NumTickers)
    /\ argv = <<>>
    /\ NoColumn

\* analyze_us_stocks at line 510 with a universe of up to MaxUniverse
\* tickers and the presets' own batch sizes.
InitSlices ==
    /\ Configure(PRESETS.aggressive.batch_size)
    /\ Fresh
    /\ drop_threshold = -10
    /\ provider = [histories |-> RunHistories, infos |-> RunInfos]
    /\ timing = FALSE
    /\ mpc = "loop"
    /\ \E n \in 1..MaxUniverse :
          tickers = [i \in 1..n |-> i] /\ source = Readable(n)
    /\ argv = <<>>
    /\ NoColumn

\* ------------------------------------------------------------ worker pool
Set(t, r) == task' = [task EXCEPT ![t] = r]

\* Tasks a pool thread is executing.
Running == {s \in Symbols : task[s].pc \notin {"idle", "queued", "done"}}
\* Tasks whose outbound provider call is in flight.
InFlight == {s \in Symbols : task[s].pc \in {"call_hist", "call_info"}}

PoolHasThreadAlways == TRUE
\* ThreadPoolExecutor(max_workers=self.max_workers), line 466: a task runs
\* only on one of at most max_workers threads.
PoolHasThread == Cardinality(Running) < max_workers

\* A thread takes the oldest queued task and enters analyze_single_stock.
Start(t) ==
    /\ task[t].pc = "queued"
    /\ \A s \in Symbols : task[s].pc = "queued" => t <= s
    /\ PoolHasThread
    /\ Set(t, [task[t] EXCEPT !.pc = "acquire", !.attempt = 0])
    /\ UNCHANGED <<config, loopv, outv, request_count, last_request_time, failed_requests,
                   env, mainv, acquisitions, last_gap>>

\* ------------------------------------- rate_limited_request.wrapper (264-301)
SleepTimeToMin(min_delay, time_since_last) ==
    delay_range[1] - time_since_last
\* Line 275.
SleepTime(min_delay, time_since_last) == min_delay - time_since_last

\* Lines 270-276: read the clock and last_request_time, draw min_delay, and
\* sleep when the last request is too recent.
ThrottleRead(t) ==
    /\ task[t].pc = "acquire"
    /\ \E min_delay \in uniform(delay_range[1], delay_range[2]) :
        LET current_time == 0
            time_since_last == current_time - last_request_time
            sleep_time == SleepTime(min_delay, time_since_last)
            kept == IF timing THEN min_delay ELSE 0
        IN  IF time_since_last < min_delay
            THEN Set(t, [task[t] EXCEPT !.pc = "throttle_sleep",
                                        !.wake = Until(sleep_time),
                                        !.seen_stamp = acquisitions,
                                        !.drawn = kept])
            ELSE Set(t, [task[t] EXCEPT !.pc = "stamp",
                                        !.seen_stamp = acquisitions,
                                        !.drawn = kept])
    /\ UNCHANGED <<config, loopv, outv, request_count, last_request_time, failed_requests,
                   env, mainv, acquisitions, last_gap>>

\* Line 276: time.sleep(sleep_time) returns once sleep_time has passed.
ThrottleWake(t) ==
    /\ task[t].pc = "throttle_sleep"
    /\ Elapsed(task[t].wake)
    /\ Set(t, [task[t] EXCEPT !.pc = "stamp", !.wake = 0])
    /\ UNCHANGED <<config, loopv, outv, request_count, last_request_time, failed_requests,
                   env, mainv, acquisitions, last_gap>>

\* Line 278, and the read half of line 279: no lock is held.
Stamp(t) ==
    /\ task[t].pc = "stamp"
    /\ last_request_time' = 0
    /\ Set(t, [task[t] EXCEPT !.pc = "count", !.reg = request_count,
                              !.stamps = @ + 1, !.drawn = 0])
    /\ acquisitions' = acquisitions + 1
    /\ last_gap' = 0 - last_request_time
    /\ UNCHANGED <<config, loopv, outv, request_count, failed_requests, env, mainv>>

\* The write half of line 279; then line 285 invokes func.
Count(t) ==
    /\ task[t].pc = "count"
    /\ request_count' = task[t].reg + 1
    /\ Set(t, [task[t] EXCEPT
                  !.pc = IF t = Main THEN "call_news" ELSE "call_hist",
                  !.reg = 0, !.invocations = @ + 1])
    /\ UNCHANGED <<config, loopv, outv, last_request_time, failed_requests, env, mainv,
                   acquisitions, last_gap>>

RecordFailureLost(t) == failed_requests
RecordFailureFirst(t) == <<t>> \o failed_requests
\* Line 389: self.failed_requests.append(ticker_symbol).
RecordFailure(t) == Append(failed_requests, t)

StartBackoffUnlessLast(t, e) ==
    IF task[t].attempt + 1 < RATE_LIMIT_CONFIG.max_retries
    THEN \E jitter \in uniform(0, 10) :
            LET delay == BackoffDelay(task[t].attempt, jitter)
            IN  Set(t, [task[t] EXCEPT
                          !.pc = "backoff", !.error = e, !.hist = <<>>,
                          !.seen_stamp = 0, !.delay = delay,
                          !.wake = Until(delay), !.backoffs = @ + 1])
    ELSE Set(t, [task[t] EXCEPT !.pc = "done", !.hist = <<>>,
                                !.seen_stamp = 0, !.outcome = "exhausted"])
\* Lines 289-294: the backoff after a rate-limit error e.
StartBackoff(t, e) ==
    \E jitter \in uniform(0, 10) :
        LET delay == BackoffDelay(task[t].attempt, jitter)
        IN  Set(t, [task[t] EXCEPT
                      !.pc = "backoff", !.error = e, !.hist = <<>>,
                      !.seen_stamp = 0, !.delay = delay,
                      !.wake = Until(delay), !.backoffs = @ + 1])

\* Lines 288-297 for an exception e raised by func, and lines 387-390 of
\* analyze_single_stock for the one the wrapper raises again.
Except(t, e) ==
    IF IsRateLimitError(e)
    THEN /\ StartBackoff(t, e)
         /\ UNCHANGED failed_requests
    ELSE /\ failed_requests' = RecordFailure(t)
         /\ Set(t, [task[t] EXCEPT !.pc = "done", !.outcome = "error",
                                   !.error = e, !.hist = <<>>,
                                   !.seen_stamp = 0])

\* fetch_stock_data (316-329): ticker.history raises.
HistRaise(t) ==
    /\ task[t].pc = "call_hist"
    /\ \E e \in ErrorTexts : Except(t, e)
    /\ UNCHANGED <<config, loopv, outv, request_count, last_request_time, env, mainv,
                   acquisitions, last_gap>>

\* ticker.history returns; lines 322-324 and 333-334 when it is too short.
HistReturn(t) ==
    /\ task[t].pc = "call_hist"
    /\ \E h \in provider.histories :
        IF Insufficient(h)
        THEN Set(t, [task[t] EXCEPT !.pc = "done", !.seen_stamp = 0,
                                    !.outcome = "insufficient",
                                    !.resp = <<h>>])
        ELSE Set(t, [task[t] EXCEPT !.pc = "call_info", !.hist = h])
    /\ UNCHANGED <<config, loopv, outv, request_count, last_request_time, failed_requests,
                   env, mainv, acquisitions, last_gap>>

\* Line 327: ticker.info raises.
InfoRaise(t) ==
    /\ task[t].pc = "call_info"
    /\ \E e \in ErrorTexts : Except(t, e)
    /\ UNCHANGED <<config, loopv, outv, request_count, last_request_time, env, mainv,
                   acquisitions, last_gap>>

\* ticker.info returns; analyze_single_stock lines 336-385.
InfoReturn(t) ==
    /\ task[t].pc = "call_info"
    /\ \E info \in provider.infos :
        LET percent_change == PercentChange(task[t].hist)
        IN  IF Qualifies(percent_change, drop_threshold)
            THEN Set(t, [task[t] EXCEPT
                           !.pc = "done", !.seen_stamp = 0, !.hist = <<>>,
                           !.outcome = "record",
                           !.resp = <<task[t].hist, info>>,
                           !.result =
                              <<[symbol |-> t,
                                 company_name |-> Get(info, "longName", Str),
                                 percent_change |-> percent_change,
                                 market_cap |->
                                     Get(info, "marketCap", Num(0))]>>])
            ELSE Set(t, [task[t] EXCEPT
                           !.pc = "done", !.seen_stamp = 0, !.hist = <<>>,
                           !.outcome = "no_drop",
                           !.resp = <<task[t].hist, info>>])
    /\ UNCHANGED <<config, loopv, outv, request_count, last_request_time, failed_requests,
                   env, mainv, acquisitions, last_gap>>

\* Lines 293-294 and 299-301: the backoff sleep ends; the loop goes on or
\* is exhausted, and then analyze_single_stock returns None (333-334).
max_retries_by_preset ==
    IF rate_limit_preset = "ultra_conservative" THEN 5
    ELSE RATE_LIMIT_CONFIG.max_retries
\* Line 264: the attempt cap is read from the module-level dictionary.
max_retries == RATE_LIMIT_CONFIG.max_retries

BackoffWake(t) ==
    /\ task[t].pc = "backoff"
    /\ Elapsed(task[t].wake)
    /\ IF task[t].attempt + 1 < max_retries
       THEN Set(t, [task[t] EXCEPT !.pc = "acquire", !.wake = 0, !.delay = 0,
                                   !.error = NoError, !.attempt = @ + 1])
       ELSE Set(t, [task[t] EXCEPT !.pc = "done", !.wake = 0, !.delay = 0,
                                   !.error = NoError,
                                   !.outcome = "exhausted"])
    /\ UNCHANGED <<config, loopv, outv, request_count, last_request_time, failed_requests,
                   env, mainv, acquisitions, last_gap>>

\* --------------------------------------------------- process_batch (454-485)
batch_tickers_overlap ==
    SubSeq(tickers, Max(batch_num, 1), Min(batch_num + batch_size, Len(tickers)))
\* Line 514: the slice tickers[batch_num:batch_num + batch_size].
batch_tickers ==
    SubSeq(tickers, batch_num + 1, Min(batch_num + batch_size, Len(tickers)))
BatchSet == {batch_tickers[i] : i \in 1..Len(batch_tickers)}
\* Lines 511 and 515.
total_batches == (Len(tickers) + batch_size - 1) \div batch_size
current_batch == (batch_num \div batch_size) + 1

\* Lines 468-471: executor.submit for the next ticker of the batch.
Submit(t) ==
    /\ mpc = "submit"
    /\ t \in BatchSet
    /\ task[t].pc = "idle"
    /\ \A s \in BatchSet : task[s].pc = "idle" => t <= s
    /\ Set(t, [task[t] EXCEPT !.pc = "queued"])
    /\ mpc' = IF \E s \in BatchSet : s # t /\ task[s].pc = "idle"
              THEN "submit" ELSE "collect"
    /\ UNCHANGED <<config, loopv, outv, request_count, last_request_time, failed_requests,
                   env, tickers, batch_num, batch_results, dropped_stocks,
                   processed_count, mwake, acquisitions, last_gap>>

GatheredLast(t) == task[t].result
\* Lines 478-480: a result that is not None is appended to batch_results.
Gathered(t) == batch_results \o task[t].result

\* Lines 474-483: as_completed yields a finished future; its record, if any,
\* is appended to batch_results.
Collect(t) ==
    /\ mpc = "collect"
    /\ t \in BatchSet
    /\ task[t].pc = "done"
    /\ ~task[t].collected
    /\ Set(t, [task[t] EXCEPT !.collected = TRUE])
    /\ batch_results' = Gathered(t)
    /\ UNCHANGED <<config, loopv, outv, request_count, last_request_time, failed_requests,
                   env, mpc, tickers, batch_num, dropped_stocks,
                   processed_count, mwake, acquisitions, last_gap>>

\* --------------------------------------------- analyze_us_stocks (487-544)
NoTickersIfNone(src) == ~src.found
\* `not tickers` of line 494: get_fortune5000_tickers returned None (the
\* file could not be read, 115-121) or an empty list.
NoTickers(src) == ~src.found \/ src.symbols = <<>>

\* Lines 493-496: the ticker universe, or nothing (then tickers is held as
\* the empty list).
LoadTickers ==
    /\ mpc = "load"
    /\ tickers' = source.symbols
    /\ mpc' = IF NoTickers(source) THEN "done" ELSE "loop"
    /\ UNCHANGED <<config, loopv, outv, request_count, last_request_time, failed_requests,
                   env, batch_num, batch_results, dropped_stocks,
                   processed_count, mwake, task, acquisitions, last_gap>>

\* Line 513: the for loop takes the next batch or ends.
LoopNext ==
    /\ mpc = "loop"
    /\ IF batch_num < Len(tickers)
       THEN mpc' = "submit" /\ batch_results' = <<>>
       ELSE mpc' = "display" /\ UNCHANGED batch_results
    /\ UNCHANGED <<config, loopv, outv, request_count, last_request_time, failed_requests,
                   env, tickers, batch_num, dropped_stocks, processed_count,
                   mwake, task, acquisitions, last_gap>>

BatchDoneAny == \E s \in BatchSet : task[s].collected
\* Lines 474-485: as_completed has yielded every future of the batch, and the
\* with block has shut the pool down.
BatchDone == \A s \in BatchSet : task[s].collected

NextBatchNumStuck == batch_num
\* The step of range(0, len(tickers), self.batch_size), line 513.
NextBatchNum == batch_num + batch_size

PauseDueAlways == TRUE
\* The test of line 529: no sleep after the last batch.
PauseDue == current_batch < total_batches

ConfigKeptButPause ==
    /\ inter_batch_delay' = <<20, 50>>
    /\ UNCHANGED <<drop_threshold, rate_limit_preset, max_workers, batch_size,
                   delay_range>>
\* Lines 521-532 assign locals only (the inter_batch_delay of line 530 is
\* one): no field loaded at lines 45-52 is written.
ConfigKept == UNCHANGED config

\* Lines 521-532: the results of the batch are merged, and the pause is
\* drawn unless the batch is the last.
AfterBatch(results) ==
    /\ ConfigKept
    /\ dropped_stocks' = dropped_stocks \o results
    /\ processed_count' = processed_count + Len(batch_tickers)
    /\ batches' = Append(batches, batch_tickers)
    /\ IF PauseDue
       THEN /\ \E d \in uniform(20, 50) :
                 pause_delay' = d /\ mwake' = Until(d)
            /\ pauses' = pauses + 1
            /\ mpc' = "pause"
            /\ UNCHANGED batch_num
       ELSE /\ mpc' = "loop"
            /\ batch_num' = NextBatchNum
            /\ UNCHANGED <<mwake, pause_delay, pauses>>

\* Line 485 and lines 520-532: process_batch returns.
BatchReturn ==
    /\ mpc = "collect"
    /\ BatchDone
    /\ AfterBatch(batch_results)
    /\ UNCHANGED <<outv, request_count, last_request_time,
                   failed_requests, env, tickers, batch_results, task,
                   acquisitions, last_gap>>

\* Lines 514-532 with process_batch taken as one step that finds no drop:
\* the slicing of a universe longer than the pool's tasks are followed for.
BatchStub ==
    /\ mpc = "submit"
    /\ AfterBatch(<<>>)
    /\ UNCHANGED <<outv, request_count, last_request_time,
                   failed_requests, env, tickers, batch_results, task,
                   acquisitions, last_gap>>

\* Line 532: the inter-batch sleep ends.
PauseEnd ==
    /\ mpc = "pause"
    /\ Elapsed(mwake)
    /\ mpc' = "loop"
    /\ batch_num' = NextBatchNum
    /\ mwake' = 0
    /\ pause_delay' = 0
    /\ UNCHANGED <<config, outv, batches, pauses, request_count, last_request_time,
                   failed_requests, env, tickers, batch_results,
                   dropped_stocks, processed_count, task, acquisitions,
                   last_gap>>

SortByChangeNot(recs) == recs
\* list.sort(key=percent_change) of line 554: a stable insertion sort.
RECURSIVE Insert(_, _)
Insert(r, sorted) ==
    IF sorted = <<>> THEN <<r>>
    ELSE IF r.percent_change < sorted[1].percent_change
         THEN <<r>> \o sorted
         ELSE <<sorted[1]>> \o Insert(r, Tail(sorted))
RECURSIVE SortByChange(_)
SortByChange(recs) ==
    IF recs = <<>> THEN <<>>
    ELSE Insert(recs[Len(recs)], SortByChange(SubSeq(recs, 1, Len(recs) - 1)))
\* dropped_stocks[:5] of line 578.
Top == 5

\* -------------------------------------------- display_results (546-631)
\* A record whose table row cannot be printed: company_name[:29] of line 565
\* and the comparison market_cap >= 1e12 of line 429 raise TypeError on None.
BadRow(r) == r.company_name.kind = "none" \/ r.market_cap.kind = "none"

\* Lines 549-570: nothing to show, or the sort and the table; the exception
\* of a row that cannot be printed leaves display_results and
\* analyze_us_stocks and is caught by main (line 672).
Display ==
    /\ mpc = "display"
    /\ IF dropped_stocks = <<>>
       THEN /\ mpc' = "save"
            /\ UNCHANGED <<dropped_stocks, console, detail_i>>
       ELSE LET sorted == SortByChange(dropped_stocks)
                bad == {i \in 1..Len(sorted) : BadRow(sorted[i])}
            IN  /\ dropped_stocks' = sorted
                /\ IF bad = {}
                   THEN /\ console' = sorted
                        /\ mpc' = "detail"
                        /\ detail_i' = 1
                   ELSE /\ console' =
                             SubSeq(sorted, 1,
                                    (CHOOSE i \in bad :
                                        \A j \in bad : i <= j) - 1)
                        /\ mpc' = "crashed"
                        /\ UNCHANGED detail_i
    /\ UNCHANGED <<config, loopv, csv_rows, saves, reported, request_count,
                   last_request_time, failed_requests, env, tickers,
                   batch_num, batch_results, processed_count, mwake, task,
                   acquisitions, last_gap>>

\* Lines 578-622: the detail of the next of the top 5 drops, up to the call
\* of get_stock_news; or the loop is over.
Detail ==
    /\ mpc = "detail"
    /\ IF detail_i <= Min(Top, Len(dropped_stocks))
       THEN /\ mpc' = "news"
            /\ Set(Main, [IdleTask EXCEPT !.pc = "acquire"])
       ELSE /\ mpc' = "save"
            /\ UNCHANGED task
    /\ UNCHANGED <<config, loopv, outv, request_count, last_request_time,
                   failed_requests, env, tickers, batch_num, batch_results,
                   dropped_stocks, processed_count, mwake, acquisitions,
                   last_gap>>

\* fetch_news (403-406): ticker.news raises; an error that is not a rate
\* limit is caught by get_stock_news (423-425), which returns [].
NewsRaise(t) ==
    /\ t = Main
    /\ task[t].pc = "call_news"
    /\ \E e \in ErrorTexts :
        IF IsRateLimitError(e)
        THEN StartBackoff(t, e)
        ELSE Set(t, [task[t] EXCEPT !.pc = "done", !.outcome = "error",
                                    !.error = e, !.seen_stamp = 0])
    /\ UNCHANGED <<config, loopv, outv, request_count, last_request_time,
                   failed_requests, env, mainv, acquisitions, last_gap>>

\* ticker.news returns; get_stock_news builds its list (411-421).
NewsReturn(t) ==
    /\ t = Main
    /\ task[t].pc = "call_news"
    /\ Set(t, [task[t] EXCEPT !.pc = "done", !.outcome = "news",
                              !.seen_stamp = 0])
    /\ UNCHANGED <<config, loopv, outv, request_count, last_request_time,
                   failed_requests, env, mainv, acquisitions, last_gap>>

\* Lines 622-631: get_stock_news has returned; the news are printed and the
\* loop goes on.
NewsDone ==
    /\ mpc = "news"
    /\ task[Main].pc = "done"
    /\ Set(Main, IdleTask)
    /\ detail_i' = detail_i + 1
    /\ mpc' = "detail"
    /\ UNCHANGED <<config, loopv, console, csv_rows, saves, reported, request_count,
                   last_request_time, failed_requests, env, tickers,
                   batch_num, batch_results, dropped_stocks, processed_count,
                   mwake, acquisitions, last_gap>>

ShouldSaveAlways(rows) == TRUE
\* `if dropped_stocks` of line 538.
ShouldSave(rows) == rows # <<>>

\* Lines 538-539 and save_results_to_csv (633-642).
Save ==
    /\ mpc = "save"
    /\ csv_rows' = IF ShouldSave(dropped_stocks) THEN dropped_stocks
                   ELSE csv_rows
    /\ saves' = IF ShouldSave(dropped_stocks) THEN saves + 1 ELSE saves
    /\ mpc' = "report"
    /\ UNCHANGED <<config, loopv, console, reported, detail_i, request_count,
                   last_request_time, failed_requests, env, tickers,
                   batch_num, batch_results, dropped_stocks, processed_count,
                   mwake, task, acquisitions, last_gap>>

\* Lines 542-544: the failure list is reported; analyze_us_stocks returns.
Report ==
    /\ mpc = "report"
    /\ reported' = (failed_requests # <<>>)
    /\ mpc' = "done"
    /\ UNCHANGED <<config, loopv, console, csv_rows, saves, detail_i, request_count,
                   last_request_time, failed_requests, env, tickers,
                   batch_num, batch_results, dropped_stocks, processed_count,
                   mwake, task, acquisitions, last_gap>>

\* ------------------------------------------------------------------ clock
\* Time passes, up to the moment a sleeper is due.
Due == {task[s].wake : s \in {x \in Threads :
                                task[x].pc \in {"throttle_sleep", "backoff"}}}
         \cup (IF mpc = "pause" THEN {mwake} ELSE {})
Advance ==
    /\ \E d \in Due :
        /\ d > 0
        /\ task' = [s \in Threads |->
                        [task[s] EXCEPT !.wake = Max(@ - d, 0)]]
        /\ mwake' = Max(mwake - d, 0)
        /\ last_request_time' = Max(last_request_time - d, -LongAgo)
    /\ UNCHANGED <<config, loopv, outv, request_count, failed_requests, env,
                   mpc, tickers, batch_num, batch_results, dropped_stocks,
                   processed_count, acquisitions, last_gap>>

Next ==
    \/ LoadTickers
    \/ LoopNext
    \/ \E t \in Symbols : Submit(t)
    \/ \E t \in Symbols : Start(t)
    \/ \E t \in Symbols : ThrottleRead(t)
    \/ \E t \in Symbols : ThrottleWake(t)
    \/ \E t \in Symbols : Stamp(t)
    \/ \E t \in Symbols : Count(t)
    \/ \E t \in Symbols : HistRaise(t)
    \/ \E t \in Symbols : HistReturn(t)
    \/ \E t \in Symbols : InfoRaise(t)
    \/ \E t \in Symbols : InfoReturn(t)
    \/ \E t \in Symbols : BackoffWake(t)
    \/ \E t \in Symbols : Collect(t)
    \/ BatchReturn
    \/ PauseEnd

\* The run of analyze_us_stocks up to the call of display_results.
Spec == Init /\ [][Next]_vars

\* The same run with threads that keep running: a thread that can take a
\* step takes one, every provider call returns or raises, every sleep ends.
SpecLive == Init /\ [][Next]_vars /\ WF_vars(Next)

\* ------------------------------------------------------ operator interrupt
\* KeyboardInterrupt is raised in the main thread.  Inside the with block of
\* process_batch (466-483) it first runs the executor's __exit__, which is
\* shutdown(wait=True); elsewhere it goes straight to main (669-671).
Interrupt ==
    /\ mpc \in {"load", "loop", "submit", "collect", "pause"}
    /\ mpc' = IF mpc \in {"submit", "collect"} THEN "shutdown"
              ELSE "interrupted"
    /\ UNCHANGED <<config, loopv, outv, request_count, last_request_time,
                   failed_requests, env, tickers, batch_num, batch_results,
                   dropped_stocks, processed_count, mwake, task,
                   acquisitions, last_gap>>

ShutdownWaitsNot == TRUE
\* shutdown(wait=True) joins the pool's threads, which first run every
\* future that was submitted.
ShutdownWaits == \A t \in BatchSet : task[t].pc \in {"idle", "done"}

\* The with block is left; the interrupt reaches main, which ends the run.
PoolExit ==
    /\ mpc = "shutdown"
    /\ ShutdownWaits
    /\ mpc' = "interrupted"
    /\ UNCHANGED <<config, loopv, outv, request_count, last_request_time,
                   failed_requests, env, tickers, batch_num, batch_results,
                   dropped_stocks, processed_count, mwake, task,
                   acquisitions, last_gap>>

NextInterrupt ==
    \/ Next
    \/ Interrupt
    \/ PoolExit

\* The run up to display_results, with an interrupt at any moment.
SpecInterrupt == Init /\ [][NextInterrupt]_vars

\* After the interrupt main has returned (669-671) and the process is gone;
\* the program is started again with the same preset.  main constructs a
\* new analyzer (661-664, 37-61) and analyze_us_stocks begins at its first
\* line: nothing of the earlier process is read.
Rerun ==
    /\ mpc = "interrupted"
    /\ ~prior.ran
    /\ prior' = [ran |-> TRUE, batches |-> batches,
                 dropped_stocks |-> dropped_stocks]
    /\ mpc' = "load"
    /\ tickers' = <<>>
    /\ request_count' = 0
    /\ last_request_time' = -LongAgo
    /\ failed_requests' = <<>>
    /\ batch_num' = 0
    /\ batch_results' = <<>>
    /\ dropped_stocks' = <<>>
    /\ processed_count' = 0
    /\ mwake' = 0
    /\ pause_delay' = 0
    /\ pauses' = 0
    /\ batches' = <<>>
    /\ task' = [s \in Threads |-> IdleTask]
    /\ acquisitions' = 0
    /\ last_gap' = 0
    /\ UNCHANGED <<config, outv, timing, provider, source, argv, all_tickers,
                   valid_tickers, refiltered, calc>>

\* Only the first process is interrupted.
InterruptFirst == ~prior.ran /\ Interrupt

NextResume ==
    \/ Next
    \/ InterruptFirst
    \/ PoolExit
    \/ Rerun

\* main's process with the one-worker preset and a full ticker file, an
\* interrupt at any moment, and the process started after it.
InitResume ==
    /\ Init
    /\ rate_limit_preset = "conservative"
    /\ source = Readable(NumTickers)

SpecResume == InitResume /\ [][NextResume]_vars

\* One batch under the running clock.
NextThrottle ==
    \/ \E t \in Symbols : Submit(t)
    \/ \E t \in Symbols : Start(t)
    \/ \E t \in Symbols : ThrottleRead(t)
    \/ \E t \in Symbols : ThrottleWake(t)
    \/ \E t \in Symbols : Stamp(t)
    \/ \E t \in Symbols : Count(t)
    \/ \E t \in Symbols : HistRaise(t)
    \/ \E t \in Symbols : HistReturn(t)
    \/ \E t \in Symbols : InfoRaise(t)
    \/ \E t \in Symbols : InfoReturn(t)
    \/ \E t \in Symbols : BackoffWake(t)
    \/ \E t \in Symbols : Collect(t)
    \/ Advance

SpecThrottle == InitThrottle /\ [][NextThrottle]_vars

\* ------------------------------------------- the run after its last batch
\* The batch of the i-th ticker, and a list of symbols that follows the
\* order of the batches.
BatchOf(i) == ((i - 1) \div batch_size) + 1
InBatchOrder(q) ==
    \A i, j \in 1..Len(q) : i < j => BatchOf(q[i]) <= BatchOf(q[j])
\* The orders in which the symbols of S may have been appended to a list.
Orders(S) ==
    {q \in [1..Cardinality(S) -> S] :
        (\A i, j \in 1..Cardinality(S) : i # j => q[i] # q[j])
            /\ InBatchOrder(q)}
\* The histories that qualify under main's threshold, and the records that
\* lines 346-385 make of them.
ReportHistories == {<<100, 88>>, <<100, 99>>}
ReportRecord(sym, h, info) ==
    [symbol |-> sym,
     company_name |-> Get(info, "longName", Str),
     percent_change |-> PercentChange(h),
     market_cap |-> Get(info, "marketCap", Num(0))]
\* What a ticker without a drop was answered.
NoDropResponse == <<<<200, 199>>, [longName |-> Str, marketCap |-> Num(5)]>>

\* analyze_us_stocks at line 534, after the batches of a universe of
\* NumTickers tickers: each ticker has yielded a record, no drop or an
\* error, at its first attempt; the records and the failures were appended
\* in an order of completion.
InitReport ==
    /\ Configure(MaxBatch)
    /\ drop_threshold = -10
    /\ provider = [histories |-> Histories, infos |-> Infos]
    /\ timing = FALSE
    /\ mpc = "display"
    /\ tickers = [i \in 1..NumTickers |-> i]
    /\ source = Readable(NumTickers)
    /\ argv = <<>>
    /\ NoColumn
    /\ batch_num = total_batches * batch_size
    /\ processed_count = NumTickers
    /\ batches = [k \in 1..total_batches |->
                     SubSeq(tickers, (k - 1) * batch_size + 1,
                            Min(k * batch_size, NumTickers))]
    /\ \E rec \in SUBSET Symbols :
        \E err \in SUBSET (Symbols \ rec) :
        \E a \in [rec -> ReportHistories \X Infos] :
        \E q \in Orders(rec) :
        \E f \in Orders(err) :
            LET record(sym) == ReportRecord(sym, a[sym][1], a[sym][2])
            IN  /\ dropped_stocks = [i \in 1..Len(q) |-> record(q[i])]
                /\ batch_results =
                      SelectSeq([i \in 1..Len(q) |-> record(q[i])],
                                LAMBDA x : BatchOf(x.symbol) = total_batches)
                /\ failed_requests = f
                /\ task = [t \in Threads |->
                      IF t = Main THEN IdleTask
                      ELSE [IdleTask EXCEPT
                              !.pc = "done", !.collected = TRUE,
                              !.stamps = 1, !.invocations = 1,
                              !.outcome = IF t \in rec THEN "record"
                                          ELSE IF t \in err THEN "error"
                                          ELSE "no_drop",
                              !.result = IF t \in rec THEN <<record(t)>>
                                         ELSE <<>>,
                              !.resp = IF t \in rec THEN a[t]
                                       ELSE IF t \in err THEN <<>>
                                       ELSE NoDropResponse,
                              !.error = IF t \in err THEN Err401
                                        ELSE NoError]]
    /\ request_count = NumTickers
    /\ acquisitions = NumTickers
    /\ last_request_time = 0
    /\ last_gap = 0
    /\ mwake = 0
    /\ pause_delay = 0
    /\ pauses = total_batches - 1
    /\ console = <<>>
    /\ csv_rows = <<>>
    /\ saves = 0
    /\ reported = FALSE
    /\ detail_i = 0

\* display_results, save and report, with get_stock_news on the main thread.
NextReport ==
    \/ Display
    \/ Detail
    \/ \E t \in {Main} : ThrottleRead(t)
    \/ \E t \in {Main} : ThrottleWake(t)
    \/ \E t \in {Main} : Stamp(t)
    \/ \E t \in {Main} : Count(t)
    \/ \E t \in {Main} : NewsRaise(t)
    \/ \E t \in {Main} : NewsReturn(t)
    \/ \E t \in {Main} : BackoffWake(t)
    \/ NewsDone
    \/ Save
    \/ Report

SpecReport == InitReport /\ [][NextReport]_vars

\* The batch loop alone, each process_batch one step.
NextSlices ==
    \/ LoopNext
    \/ BatchStub
    \/ PauseEnd

SpecSlices == InitSlices /\ [][NextSlices]_vars

\* Names that are no key of PRESETS: test_rate_limiting.main hands
\* sys.argv[1] to the constructor as typed (106, 30).
UnknownNames == {"turbo", "Balanced", ""}

\* Fortune5000Analyzer(drop_threshold=-0.1, rate_limit_preset=name), lines
\* 45-58, for any name; then the batch loop over a universe of up to
\* MaxUniverse tickers with the preset's own batch size.
InitDirect ==
    /\ \E name \in DOMAIN PRESETS \cup UnknownNames :
        /\ rate_limit_preset = name
        /\ max_workers = get_config(name).max_workers
        /\ batch_size = get_config(name).batch_size
        /\ delay_range = get_config(name).delay_range
        /\ inter_batch_delay = get_config(name).inter_batch_delay
    /\ drop_threshold = -1
    /\ Fresh
    /\ provider = [histories |-> RunHistories, infos |-> RunInfos]
    /\ timing = FALSE
    /\ mpc = "loop"
    /\ \E n \in 1..MaxUniverse :
          tickers = [i \in 1..n |-> i] /\ source = Readable(n)
    /\ argv = <<>>
    /\ NoColumn

SpecDirect == InitDirect /\ [][NextSlices]_vars

\* test_rate_limiting line 46: the calling thread enters
\* analyze_single_stock itself.
DirectCall(t) ==
    /\ mpc = "direct"
    /\ t = tickers[1]
    /\ task[t].pc = "idle"
    /\ Set(t, [task[t] EXCEPT !.pc = "acquire", !.attempt = 0])
    /\ UNCHANGED <<config, loopv, outv, request_count, last_request_time, failed_requests,
                   env, mainv, acquisitions, last_gap>>

\* analyze_single_stock has returned to its caller.
DirectReturn(t) ==
    /\ mpc = "direct"
    /\ task[t].pc = "done"
    /\ mpc' = "done"
    /\ UNCHANGED <<config, loopv, outv, request_count, last_request_time, failed_requests,
                   env, tickers, batch_num, batch_results,
                   dropped_stocks, processed_count, mwake, task,
                   acquisitions, last_gap>>

\* One direct call of analyze_single_stock under the running clock.
NextSingle ==
    \/ \E t \in Symbols : DirectCall(t)
    \/ \E t \in Symbols : ThrottleRead(t)
    \/ \E t \in Symbols : ThrottleWake(t)
    \/ \E t \in Symbols : Stamp(t)
    \/ \E t \in Symbols : Count(t)
    \/ \E t \in Symbols : HistRaise(t)
    \/ \E t \in Symbols : HistReturn(t)
    \/ \E t \in Symbols : InfoRaise(t)
    \/ \E t \in Symbols : InfoReturn(t)
    \/ \E t \in Symbols : BackoffWake(t)
    \/ \E t \in Symbols : DirectReturn(t)
    \/ Advance

SpecSingle == InitSingle /\ [][NextSingle]_vars

\* ------------------------------------------------- the S&P 500 variant
sp500_analyze_strict(symbol, hist, info, threshold) ==
    IF Insufficient(hist) THEN <<>>
    ELSE IF ~QualifiesStrict(PercentChange(hist), threshold) THEN <<>>
    ELSE <<[symbol |-> symbol,
            company_name |-> Get(info, "longName", Str),
            percent_change |-> PercentChange(hist),
            market_cap |-> Get(info, "marketCap", Num(0))]>>
\* SP500Analyzer.analyze_single_stock (sp500-analysis.py, 224-283) for a
\* history and an info that the provider returns without raising: <<>> for
\* None, or the record.  ticker.info is read at line 243 only.
sp500_analyze_single_stock(symbol, hist, info, threshold) ==
    IF hist = <<>> \/ Len(hist) < 2 THEN <<>>
    ELSE LET previous_close == hist[Len(hist) - 1]
             current_close == hist[Len(hist)]
             percent_change ==
                 ((current_close - previous_close) * 1000) \div previous_close
         IN  IF percent_change <= threshold
             THEN <<[symbol |-> symbol,
                     company_name |-> Get(info, "longName", Str),
                     percent_change |-> percent_change,
                     market_cap |-> Get(info, "marketCap", Num(0))]>>
             ELSE <<>>

\* ------------------------------------------------------- the entry points
\* The preset names as typed on a command line.
Spelling ==
    [aggressive |-> <<"a", "g", "g", "r", "e", "s", "s", "i", "v", "e">>,
     balanced |-> <<"b", "a", "l", "a", "n", "c", "e", "d">>,
     conservative |-> <<"c", "o", "n", "s", "e", "r", "v", "a", "t", "i", "v", "e">>,
     ultra_conservative |->
      <<"u", "l", "t", "r", "a", "_", "c", "o", "n", "s", "e", "r", "v",
      "a", "t", "i", "v", "e">>]

\* Arguments a user may type: the names, in any case, and other words.
Words ==
    {<<"b", "a", "l", "a", "n", "c", "e", "d">>,
     <<"B", "a", "l", "a", "n", "c", "e", "d">>,
     <<"A", "G", "G", "R", "E", "S", "S", "I", "V", "E">>,
     <<"c", "o", "n", "s", "e", "r", "v", "a", "t", "i", "v", "e">>,
     <<"u", "l", "t", "r", "a", "_", "c", "o", "n", "s", "e", "r", "v",
      "a", "t", "i", "v", "e">>,
     <<"u", "l", "t", "r", "a">>,
     <<"f", "a", "s", "t">>,
     <<>>,
     <<"h", "e", "l", "p">>,
     <<"b", "a", "l", "a", "n", "c", "e", "d", " ">>}

\* The list of line 653, and the names of rate_limit_config.PRESETS tested
\* by run_analysis.main at line 17.
MainPresets ==
    {"aggressive", "balanced", "conservative", "ultra_conservative"}
NoPreset == ""
Named(names, word) ==
    IF \E k \in names : Spelling[k] = word
    THEN CHOOSE k \in names : Spelling[k] = word
    ELSE NoPreset

ParsePresetFallback(args) ==
    IF args = <<>> \/ Named(MainPresets, Lower(args[1])) = NoPreset
    THEN "balanced" ELSE Named(MainPresets, Lower(args[1]))
\* main, lines 651-658: the preset the analysis runs with, or none when the
\* argument is not a valid name.
ParsePreset(args) ==
    IF args = <<>> THEN "balanced" ELSE Named(MainPresets, Lower(args[1]))

\* No analyzer has been constructed.
Unbuilt ==
    /\ drop_threshold = 0
    /\ rate_limit_preset = NoPreset
    /\ max_workers = 0
    /\ batch_size = 0
    /\ delay_range = <<0, 0>>
    /\ inter_batch_delay = <<0, 0>>

\* A process is started on fortune5000-analysis.py with or without an
\* argument, or on run_analysis.py with an argument.
InitMain ==
    /\ Unbuilt
    /\ Fresh
    /\ provider = [histories |-> RunHistories, infos |-> RunInfos]
    /\ source \in {Unreadable, Readable(1)}
    /\ timing = FALSE
    /\ tickers = <<>>
    /\ NoColumn
    /\ \/ mpc = "main" /\ argv \in {<<>>} \cup {<<w>> : w \in Words}
       \/ mpc = "wrapper" /\ argv \in {<<w>> : w \in Words}

\* run_analysis.main, lines 15-27: a known preset is handed, lower-cased,
\* to a fortune5000-analysis.py process; help and unknown words end in the
\* usage text.
WrapperStart ==
    /\ mpc = "wrapper"
    /\ LET preset == Lower(argv[1]) IN
        IF Named(DOMAIN PRESETS, preset) # NoPreset
        THEN argv' = <<preset>> /\ mpc' = "main"
        ELSE argv' = argv /\ mpc' = "usage"
    /\ UNCHANGED <<config, request_count, last_request_time, failed_requests,
                   timing, provider, source, prior,
                   all_tickers, valid_tickers,
                   refiltered, calc, tickers, batch_num, batch_results,
                   dropped_stocks, processed_count, mwake, loopv, outv, task,
                   acquisitions, last_gap>>

\* main, lines 649-667: an invalid preset is reported and main returns;
\* otherwise the analyzer is constructed (37-61) with a threshold of -1.0
\* and analyze_us_stocks is entered.
MainStart ==
    /\ mpc = "main"
    /\ LET preset == ParsePreset(argv) IN
        IF preset = NoPreset
        THEN /\ mpc' = "usage"
             /\ UNCHANGED config
        ELSE /\ mpc' = "load"
             /\ drop_threshold' = -10
             /\ rate_limit_preset' = preset
             /\ max_workers' = get_config(preset).max_workers
             /\ batch_size' = Min(get_config(preset).batch_size, MaxBatch)
             /\ delay_range' = get_config(preset).delay_range
             /\ inter_batch_delay' = get_config(preset).inter_batch_delay
    /\ UNCHANGED <<request_count, last_request_time, failed_requests, env,
                   tickers, batch_num, batch_results, dropped_stocks,
                   processed_count, mwake, loopv, outv, task, acquisitions,
                   last_gap>>

\* The universe here is one ticker at most, hence one batch and no pause
\* between batches (line 520).
NextMain ==
    \/ WrapperStart
    \/ MainStart
    \/ LoadTickers
    \/ LoopNext
    \/ \E t \in Symbols : Submit(t)
    \/ \E t \in Symbols : Start(t)
    \/ \E t \in Symbols : ThrottleRead(t)
    \/ \E t \in Symbols : ThrottleWake(t)
    \/ \E t \in Symbols : Stamp(t)
    \/ \E t \in Symbols : Count(t)
    \/ \E t \in Symbols : HistRaise(t)
    \/ \E t \in Symbols : HistReturn(t)
    \/ \E t \in Symbols : InfoRaise(t)
    \/ \E t \in Symbols : InfoReturn(t)
    \/ \E t \in Symbols : BackoffWake(t)
    \/ \E t \in Symbols : Collect(t)
    \/ BatchReturn

\* A process from its start to the call of display_results.
SpecMain == InitMain /\ [][NextMain]_vars

\* ---------------------------------------------------------- the whole run
\* analyze_us_stocks from its first line to its return: the batches, then
\* the table, the details with their news, the CSV file and the report.
NextRun ==
    \/ LoadTickers
    \/ LoopNext
    \/ \E t \in Symbols : Submit(t)
    \/ \E t \in Symbols : Start(t)
    \/ \E t \in Threads : ThrottleRead(t)
    \/ \E t \in Threads : ThrottleWake(t)
    \/ \E t \in Threads : Stamp(t)
    \/ \E t \in Threads : Count(t)
    \/ \E t \in Symbols : HistRaise(t)
    \/ \E t \in Symbols : HistReturn(t)
    \/ \E t \in Symbols : InfoRaise(t)
    \/ \E t \in Symbols : InfoReturn(t)
    \/ \E t \in Threads : BackoffWake(t)
    \/ \E t \in Symbols : Collect(t)
    \/ BatchReturn
    \/ PauseEnd
    \/ Display
    \/ Detail
    \/ \E t \in {Main} : NewsRaise(t)
    \/ \E t \in {Main} : NewsReturn(t)
    \/ NewsDone
    \/ Save
    \/ Report

SpecRun == Init /\ [][NextRun]_vars

\* ------------------------------------------------------ the ticker filter
Digits == {"0", "1", "2", "3", "4", "5", "6", "7", "8", "9"}
Letters ==
    {UpperLetters[i] : i \in 1..26} \cup {LowerLetters[i] : i \in 1..26}

\* The characters of the modelled strings in the order of their code
\* points, by which sorted() compares strings.
CodeOrder ==
    <<" ", "#", "$", "-", ".",
      "0", "1", "2", "3", "4", "5", "6", "7", "8", "9">>
        \o UpperLetters \o LowerLetters
Ord(c) == CHOOSE i \in 1..Len(CodeOrder) : CodeOrder[i] = c

\* s < t for strings.
StrLess(s, t) ==
    \E k \in 0..Min(Len(s), Len(t)) :
        /\ \A j \in 1..k : s[j] = t[j]
        /\ \/ (k = Len(s) /\ k < Len(t))
           \/ (k < Len(s) /\ k < Len(t) /\ Ord(s[k + 1]) < Ord(t[k + 1]))

\* str.strip(), str.endswith(), `c in s`, str.replace(a, b) for characters,
\* str.isalnum() and str.isalpha().
strip(s) ==
    LET keep == {i \in 1..Len(s) : s[i] # " "} IN
    IF keep = {} THEN <<>>
    ELSE SubSeq(s, CHOOSE i \in keep : \A j \in keep : i <= j,
                   CHOOSE i \in keep : \A j \in keep : j <= i)
endswith(s, suffix) ==
    /\ Len(suffix) <= Len(s)
    /\ SubSeq(s, Len(s) - Len(suffix) + 1, Len(s)) = suffix
HasChar(s, c) == \E i \in 1..Len(s) : s[i] = c
replace(s, a, b) == [i \in 1..Len(s) |-> IF s[i] = a THEN b ELSE s[i]]
remove(s, a) == SelectSeq(s, LAMBDA c : c # a)
isalnum(s) == s # <<>> /\ \A i \in 1..Len(s) : s[i] \in Letters \cup Digits
isalpha(s) == s # <<>> /\ \A i \in 1..Len(s) : s[i] \in Letters

\* Line 82.
excluded_suffixes ==
    {<<"$">>, <<"#">>} \cup {<<".", UpperLetters[i]>> : i \in 1..26}

TextNan == <<"n", "a", "n">>
MaxTickerLen == 6

\* Lines 100-101.
Normalize(ticker) ==
    IF HasChar(ticker, ".") /\ ~endswith(ticker, <<".">>)
    THEN replace(ticker, ".", "-") ELSE ticker

\* One turn of the loop of lines 84-105: what is appended to valid_tickers
\* for a raw ticker (nothing, or the ticker kept).
Kept(raw) ==
    LET ticker == strip(raw) IN
    IF ticker = <<>> \/ ticker = TextNan \/ Len(ticker) > MaxTickerLen
    THEN <<>>
    ELSE IF \E suffix \in excluded_suffixes : endswith(ticker, suffix)
    THEN <<>>
    ELSE IF HasChar(ticker, "$") \/ HasChar(ticker, "#")
    THEN <<>>
    ELSE IF /\ isalnum(remove(remove(Normalize(ticker), "-"), "."))
            /\ isalpha(<<Normalize(ticker)[1]>>)
    THEN <<Normalize(ticker)>>
    ELSE <<>>

RECURSIVE SortSet(_)
SortSet(S) ==
    IF S = {} THEN <<>>
    ELSE LET m == CHOOSE x \in S : \A y \in S : x = y \/ StrLess(x, y)
         IN  <<m>> \o SortSet(S \ {m})

AsAppended(list) == list
\* Line 108: sorted(list(set(valid_tickers))).
SortedSet(list) == SortSet({list[i] : i \in 1..Len(list)})

RECURSIVE Appended(_)
Appended(column) ==
    IF column = <<>> THEN <<>>
    ELSE Kept(Head(column)) \o Appended(Tail(column))

\* Lines 80-108: the filter of get_fortune5000_tickers.
FilterTickers(column) == SortedSet(Appended(column))

\* Values of the Symbol column: share-class tickers with a dot, padded,
\* plain, over-long, empty and marked ones.
RawTickers ==
    {<<"B", "R", "K", ".", "A">>,
     <<"B", "F", ".", "B">>,
     <<"b", "r", "k", ".", "a">>,
     <<"A", "B", ".", "1">>,
     <<"A", "B", "C", ".">>,
     <<" ", "A", "A", "P", "L", " ">>,
     <<"A", "A", "P", "L">>,
     <<"M", "S", "F", "T">>,
     <<"A", "$", "B">>,
     <<"X", "#">>,
     <<"G", "O", "O", "G", "L", "E", "7">>,
     <<>>,
     <<"n", "a", "n">>,
     <<"1", "A", "B">>,
     <<"A", "-", "B">>,
     <<"B", "R", "K", "-", "A">>,
     <<"A", " ", "B">>,
     <<".", "A">>}
MaxColumn == 2

\* get_fortune5000_tickers at line 78, the column read.
InitFilter ==
    /\ Construct
    /\ provider = [histories |-> RunHistories, infos |-> RunInfos]
    /\ source = Readable(0)
    /\ argv = <<>>
    /\ timing = FALSE
    /\ tickers = <<>>
    /\ mpc = "column"
    /\ \E n \in 0..MaxColumn : all_tickers \in [1..n -> RawTickers]
    /\ valid_tickers = <<>>
    /\ refiltered = <<>>
    /\ calc = NoCalc
    /\ prior = NoPrior

\* Lines 80-113.
FilterColumn ==
    /\ mpc = "column"
    /\ valid_tickers' = FilterTickers(all_tickers)
    /\ mpc' = "filtered"
    /\ UNCHANGED <<config, request_count, last_request_time, failed_requests,
                   timing, provider, source, prior,
                   argv, all_tickers, refiltered,
                   calc, tickers, batch_num, batch_results, dropped_stocks,
                   processed_count, mwake, loopv, outv, task, acquisitions,
                   last_gap>>

\* The filter applied to its own result.
FilterAgain ==
    /\ mpc = "filtered"
    /\ refiltered' = FilterTickers(valid_tickers)
    /\ mpc' = "refiltered"
    /\ UNCHANGED <<config, request_count, last_request_time, failed_requests,
                   timing, provider, source, prior,
                   argv, all_tickers, valid_tickers,
                   calc, tickers, batch_num, batch_results, dropped_stocks,
                   processed_count, mwake, loopv, outv, task, acquisitions,
                   last_gap>>

NextFilter ==
    \/ FilterColumn
    \/ FilterAgain

SpecFilter == InitFilter /\ [][NextFilter]_vars

\* ------------------------------------------------------------ the metrics
\* Numbers of ticker.info are held in thousandths, rounded results in
\* hundredths (round(x, 2)) or ten-thousandths (round(x, 4)).
\* a / b to the nearest integer, b # 0.
Nearest(a, b) ==
    IF b > 0 THEN (2 * a + b) \div (2 * b)
    ELSE (2 * (0 - a) - b) \div (2 * (0 - b))

\* bool(x) of a value of ticker.info.
Truthy(x) == x.kind = "str" \/ (x.kind = "num" /\ x.v # 0)

MinBarsOne(hist) == Len(hist) < 1
\* The test of line 154.
MinBars(hist) == Len(hist) < 14

NullIndicators ==
    [rsi |-> None, macd |-> None, macd_signal |-> None,
     macd_histogram |-> None, obv |-> None]

NaN == [kind |-> "nan", v |-> 0]
\* `round(x, n) if not pd.isna(x) else None` of lines 177-180, for a
\* library value held in hundred-thousandths and d = 10^(5 - n).
RoundUnlessNaN(x, d) == IF x.kind = "nan" THEN None ELSE Num(Nearest(x.v, d))
\* `int(obv) if not pd.isna(obv) else None` of line 181: towards zero.
IntUnlessNaN(x) ==
    IF x.kind = "nan" THEN None
    ELSE IF x.v >= 0 THEN Num(x.v \div 100000)
    ELSE Num(0 - ((0 - x.v) \div 100000))

\* What the ta library may answer for a history (164-174): it raises, or
\* its last values are numbers or NaN (the MACD of a short history).
LibOutcomes ==
    {[raises |-> TRUE, rsi |-> NaN, macd |-> NaN, macd_signal |-> NaN,
      macd_histogram |-> NaN, obv |-> NaN],
     [raises |-> FALSE, rsi |-> Num(2512345), macd |-> NaN,
      macd_signal |-> NaN, macd_histogram |-> NaN, obv |-> Num(-150000)],
     [raises |-> FALSE, rsi |-> Num(0), macd |-> Num(-12344),
      macd_signal |-> Num(26), macd_histogram |-> Num(0),
      obv |-> Num(1234567)]}

\* calculate_technical_indicators, lines 153-192.
calculate_technical_indicators(hist_data, lib) ==
    IF MinBars(hist_data) THEN NullIndicators
    ELSE IF lib.raises THEN NullIndicators
    ELSE [rsi |-> RoundUnlessNaN(lib.rsi, 1000),
          macd |-> RoundUnlessNaN(lib.macd, 10),
          macd_signal |-> RoundUnlessNaN(lib.macd_signal, 10),
          macd_histogram |-> RoundUnlessNaN(lib.macd_histogram, 10),
          obv |-> IntUnlessNaN(lib.obv)]

NullRatios ==
    [pe_ratio |-> None, forward_pe |-> None, peg_ratio |-> None,
     debt_to_equity |-> None, free_cash_flow |-> None,
     dividend_yield |-> None, book_value |-> None, price_to_book |-> None,
     return_on_equity |-> None]

ErrorRatiosKeepCashFlow(info) ==
    [NullRatios EXCEPT !.free_cash_flow = Get(info, "freeCashflow", None)]
\* The except branch of lines 244-256.
ErrorRatios(info) == NullRatios

\* `round(x, 2) if x else None` of lines 233-241, x in thousandths.
RoundIfTruthy(x) == IF Truthy(x) THEN Num(Nearest(x.v, 10)) ELSE None
\* Lines 223-225 and 230-232: a truthy fraction becomes a percentage.
Percent(x) == IF Truthy(x) /\ x.kind = "num" THEN Num(x.v * 100) ELSE x

\* The test of line 214.
HasEquity(total_equity) == Truthy(total_equity)

\* Whether lines 205-242 raise: the division of line 214 with an operand
\* that is no number, or round() of a string.
RatiosRaise(info) ==
    LET total_debt == Get(info, "totalDebt", Num(0))
        total_equity == Get(info, "totalStockholderEquity", Num(0))
    IN  \/ /\ HasEquity(total_equity)
           /\ (total_debt.kind # "num" \/ total_equity.kind # "num")
        \/ \E key \in {"trailingPE", "forwardPE", "pegRatio", "dividendYield",
                        "bookValue", "priceToBook", "returnOnEquity"} :
              info[key].kind = "str"

\* calculate_fundamental_ratios, lines 204-256.
calculate_fundamental_ratios(info) ==
    IF RatiosRaise(info) THEN ErrorRatios(info)
    ELSE
    LET total_debt == Get(info, "totalDebt", Num(0))
        total_equity == Get(info, "totalStockholderEquity", Num(0))
        \* line 214: the quotient is zero exactly if total_debt is
        debt_to_equity ==
            IF HasEquity(total_equity) THEN Num(total_debt.v) ELSE None
    IN  [pe_ratio |-> RoundIfTruthy(Get(info, "trailingPE", None)),
         forward_pe |-> RoundIfTruthy(Get(info, "forwardPE", None)),
         peg_ratio |-> RoundIfTruthy(Get(info, "pegRatio", None)),
         debt_to_equity |->
            IF Truthy(debt_to_equity)
            THEN Num(Nearest(total_debt.v * 100, total_equity.v))
            ELSE None,
         free_cash_flow |-> Get(info, "freeCashflow", None),
         dividend_yield |->
            RoundIfTruthy(Percent(Get(info, "dividendYield", None))),
         book_value |-> RoundIfTruthy(Get(info, "bookValue", None)),
         price_to_book |-> RoundIfTruthy(Get(info, "priceToBook", None)),
         return_on_equity |->
            RoundIfTruthy(Percent(Get(info, "returnOnEquity", None)))]

\* Histories of n bars whose last close fell by 12 %.
Bars(n) == [i \in 1..n |-> IF i = n THEN 88 ELSE 100]
MetricBars == {2, 13, 14}

\* ticker.info as far as the ratios read it.
RatioInfos ==
    {[trailingPE |-> pe, forwardPE |-> x, pegRatio |-> x,
      totalDebt |-> d, totalStockholderEquity |-> e, freeCashflow |-> f,
      dividendYield |-> y, bookValue |-> x, priceToBook |-> x,
      returnOnEquity |-> y] :
        pe \in {Missing, None, Num(0), Num(12346), Str},
        x \in {Missing, Num(5004)},
        d \in {Missing, None, Num(0), Num(1), Num(50)},
        e \in {Missing, None, Num(0), Num(300)},
        f \in {Missing, Num(0), Num(7)},
        y \in {Missing, Num(0), Num(12)}}

\* analyze_single_stock at line 345, the test passed: fetch_stock_data has
\* returned hist and info for ticker 1 at the first attempt.
InitMetrics ==
    /\ Construct
    /\ drop_threshold = -10
    /\ rate_limit_preset = "balanced"
    /\ provider = [histories |-> RunHistories, infos |-> RunInfos]
    /\ source = Readable(NumTickers)
    /\ argv = <<>>
    /\ timing = FALSE
    /\ tickers = <<1>>
    /\ mpc = "direct"
    /\ all_tickers = <<>>
    /\ valid_tickers = <<>>
    /\ refiltered = <<>>
    /\ prior = NoPrior
    /\ \E n \in MetricBars, info \in RatioInfos, lib \in LibOutcomes :
          calc = [NoCalc EXCEPT !.stage = "qualified", !.hist = Bars(n),
                                !.info = info, !.lib = lib]

\* Lines 357-358.
Indicators ==
    /\ calc.stage = "qualified"
    /\ calc' = [calc EXCEPT
                   !.stage = "indicators",
                   !.technical_indicators =
                       <<calculate_technical_indicators(calc.hist, calc.lib)>>]
    /\ UNCHANGED <<config, request_count, last_request_time, failed_requests,
                   timing, provider, source, prior,
                   argv, all_tickers, valid_tickers,
                   refiltered, mainv, loopv, outv, task, acquisitions,
                   last_gap>>

\* Lines 360-361.
Ratios ==
    /\ calc.stage = "indicators"
    /\ calc' = [calc EXCEPT
                   !.stage = "ratios",
                   !.fundamental_ratios =
                       <<calculate_fundamental_ratios(calc.info)>>]
    /\ UNCHANGED <<config, request_count, last_request_time, failed_requests,
                   timing, provider, source, prior,
                   argv, all_tickers, valid_tickers,
                   refiltered, mainv, loopv, outv, task, acquisitions,
                   last_gap>>

\* Lines 363-385: the record is put together from the price fields and the
\* two dictionaries, and returned.
Combine ==
    /\ calc.stage = "ratios"
    /\ calc' = [calc EXCEPT
                   !.stage = "returned",
                   !.result =
                       <<[symbol |-> tickers[1],
                          current_price |-> calc.hist[Len(calc.hist)],
                          previous_close |-> calc.hist[Len(calc.hist) - 1],
                          percent_change |-> PercentChange(calc.hist)]
                         @@ calc.technical_indicators[1]
                         @@ calc.fundamental_ratios[1]>>]
    /\ UNCHANGED <<config, request_count, last_request_time, failed_requests,
                   timing, provider, source, prior,
                   argv, all_tickers, valid_tickers,
                   refiltered, mainv, loopv, outv, task, acquisitions,
                   last_gap>>

NextMetrics ==
    \/ Indicators
    \/ Ratios
    \/ Combine

SpecMetrics == InitMetrics /\ [][NextMetrics]_vars

\* ================================================================ claims
Occurrences(seq, x) == Cardinality({i \in 1..Len(seq) : seq[i] = x})
\* A task that has stamped last_request_time and gone on to its call.
Proceeded(t) == task[t].pc \in {"count", "call_hist", "call_info"}

\* C1: the throttle's read of last_request_time, its wait and its write are
\* one read-modify-write: no two workers read the same write of
\* last_request_time and both go on to issue their call.
C1_AcquireIsAtomic ==
    \A t1, t2 \in Symbols :
        (t1 # t2 /\ Proceeded(t1) /\ Proceeded(t2))
            => task[t1].seen_stamp # task[t2].seen_stamp

\* C2: for every preset, two consecutive starts of call (writes of
\* last_request_time) are at least delay_range[0] apart.
C2_MinimumSpacing ==
    acquisitions >= 2 => last_gap >= delay_range[1]

\* C3: an operation that is rate limited on every invocation is invoked
\* once and then max_retries more times before the wrapper gives up and
\* returns None.
C3_RetriedMaxRetriesTimes ==
    \A t \in Symbols :
        task[t].outcome = "exhausted"
            => /\ task[t].invocations = 1 + RATE_LIMIT_CONFIG.max_retries
               /\ task[t].result = <<>>

\* C4: a symbol whose fetch exhausts the rate-limit retries is in
\* failed_requests and yields no record, while a symbol that was fetched but
\* did not qualify or had too little data is not in failed_requests.
C4_ExhaustedIsRecordedFailure ==
    \A t \in Symbols :
        /\ task[t].outcome = "exhausted"
            => Occurrences(failed_requests, t) = 1 /\ task[t].result = <<>>
        /\ task[t].outcome \in {"no_drop", "insufficient"}
            => Occurrences(failed_requests, t) = 0

\* C5: an exception whose text holds neither "429" nor, in any case,
\* "rate limit" ends the wrapper at once: no backoff and no further
\* invocation follow it (one invocation and no backoff at all when it is the
\* first attempt), the symbol is appended to failed_requests, once, and the
\* task returns no record.
C5_OtherErrorNotRetried ==
    \A t \in Symbols :
        (/\ task[t].error # NoError
         /\ ~Contains(task[t].error, Text429)
         /\ ~Contains(Lower(task[t].error), TextRateLimit))
            => /\ task[t].pc = "done"
               /\ task[t].result = <<>>
               /\ Occurrences(failed_requests, t) = 1
               /\ task[t].invocations = task[t].attempt + 1
               /\ task[t].backoffs = task[t].attempt
C5_Witness ==
    \E t \in Symbols :
        /\ task[t].error = Err401
        /\ task[t].pc = "done"
        /\ task[t].invocations = 1
        /\ task[t].backoffs = 0
        /\ Occurrences(failed_requests, t) = 1

\* C6: after attempt k (from 0) fails with a rate-limit error the wrapper
\* sleeps a delay within [base * 2^k, base * 2^k + 1 s], sleeps it out, and
\* then acquires the throttle again before it invokes the operation again:
\* the n-th invocation follows n stamps and n - 1 backoffs.
C6_BackoffThenAcquire ==
    [][\A t \in Symbols :
        /\ task'[t].pc = "backoff"
            => LET lo == RATE_LIMIT_CONFIG.exponential_backoff_base
                            * (2 ^ task'[t].attempt)
               IN  /\ lo <= task'[t].delay
                   /\ task'[t].delay <= lo + 10
                   /\ task'[t].wake <= task'[t].delay
        /\ (task[t].pc = "backoff" /\ task'[t].pc # "backoff")
            => /\ task[t].wake <= 0
               /\ task'[t].pc \in {"acquire", "done"}
        /\ task'[t].invocations # task[t].invocations
            => /\ task'[t].invocations = task[t].invocations + 1
               /\ task[t].stamps = task'[t].invocations
               /\ task[t].backoffs = task[t].invocations
      ]_vars
C6_Witness ==
    \E t \in Symbols :
        /\ task[t].pc = "call_hist"
        /\ task[t].attempt = 2
        /\ task[t].invocations = 3
        /\ task[t].backoffs = 2

\* C7: when N of the M symbols of a batch raise unclassified errors,
\* process_batch returns the record of every qualifying symbol among the
\* others, and exactly those N symbols are in failed_requests, each once.
C7_BatchContainment ==
    /\ \A t \in Symbols :
          Occurrences(failed_requests, t)
              = IF task[t].outcome = "error" THEN 1 ELSE 0
    /\ Len(failed_requests)
          = Cardinality({t \in Symbols : task[t].outcome = "error"})
    /\ (mpc = "collect" /\ BatchDone)
          => /\ \A t \in BatchSet :
                  Cardinality({i \in 1..Len(batch_results) :
                                  batch_results[i].symbol = t})
                      = IF task[t].outcome = "record" THEN 1 ELSE 0
             /\ \A i \in 1..Len(batch_results) :
                  batch_results[i].symbol \in BatchSet
C7_Witness ==
    /\ mpc = "collect"
    /\ BatchDone
    /\ Len(batch_tickers) = 2
    /\ \E t1, t2 \in BatchSet :
          /\ task[t1].outcome = "error"
          /\ task[t2].outcome = "record"
          /\ Len(batch_results) = 1
          /\ failed_requests = <<t1>>

\* C8: batches are strictly sequential: process_batch returns only when every
\* task of its batch is over, and a task is queued or running only while its
\* own batch is being processed; the batches before it are over and those
\* after it not begun.
C8_BatchesSequential ==
    /\ \A t \in Symbols :
          task[t].pc \notin {"idle", "done"}
              => t \in BatchSet /\ mpc \in {"submit", "collect"}
    /\ \A i \in 1..Len(tickers) :
          /\ i <= batch_num => task[tickers[i]].pc = "done"
          /\ i > batch_num + batch_size => task[tickers[i]].pc = "idle"
C8_Witness ==
    /\ batch_num > 0
    /\ \E t \in BatchSet : task[t].pc = "call_hist"
    /\ \E t \in Symbols : t <= batch_num /\ task[t].pc = "done"

\* C9: at most max_workers outbound provider calls are in flight.
C9_InFlightBounded == Cardinality(InFlight) <= max_workers
C9_Witness ==
    /\ max_workers = 1
    /\ \E t1, t2 \in BatchSet :
          task[t1].pc = "call_hist" /\ task[t2].pc = "queued"

\* C10: request_count loses no update: whenever no increment is under way it
\* equals the number of throttle acquisitions made.
C10_NoLostUpdate ==
    (\A t \in Symbols : task[t].pc # "count")
        => request_count = acquisitions

\* C11: when both provider calls succeed on a history of at least 2 bars,
\* analyze_single_stock returns a record if and only if
\* (cur - prev) / prev * 100 <= drop_threshold, equality included, and the
\* record's percent_change is that value (here in tenths of a percent, and
\* compared after multiplying by prev > 0).
C11_ThresholdCorrect ==
    [][\A t \in Symbols :
        (/\ task[t].pc = "call_info"
         /\ task'[t].pc = "done"
         /\ task'[t].outcome # "error")
            => LET h == task[t].hist
                   prev == h[Len(h) - 1]
                   cur == h[Len(h)]
               IN  /\ Len(h) >= 2 /\ prev > 0
                   /\ (task'[t].result # <<>>)
                        <=> ((cur - prev) * 1000 <= drop_threshold * prev)
                   /\ task'[t].result # <<>>
                        => /\ task'[t].result[1].symbol = t
                           /\ task'[t].result[1].percent_change * prev
                                 = (cur - prev) * 1000
      ]_vars
C11_Witness ==
    \E t \in Symbols :
        /\ task[t].outcome = "record"
        /\ task[t].result # <<>>
        /\ task[t].result[1].percent_change = drop_threshold

\* C12: short-circuit: for a symbol whose percent_change is greater than
\* drop_threshold the descriptive-info fetch is never issued.
C12_NoInfoUnlessQualifying ==
    \A t \in Symbols :
        task[t].pc = "call_info"
            => Qualifies(PercentChange(task[t].hist), drop_threshold)

\* C13: every outbound provider call is preceded by its own throttle
\* acquisition: a thread enters a provider call only out of the throttle
\* (the stamp and count of lines 278-279), never out of another call.
C13_EachCallAcquires ==
    [][\A t \in Symbols :
        (/\ task'[t].pc \in {"call_hist", "call_info"}
         /\ task'[t].pc # task[t].pc)
            => /\ task[t].pc = "count"
               /\ task'[t].invocations = task[t].invocations + 1
      ]_vars

\* C17: a symbol whose price history is empty or has fewer than 2 bars ends
\* without a record and outside failed_requests, and no provider call is
\* made for it after the history fetch.
C17_InsufficientIsNoError ==
    [][\A t \in Symbols :
        /\ (/\ task[t].pc = "call_hist"
            /\ task'[t].pc # "call_hist"
            /\ task'[t].error = NoError)
              => \/ task'[t].pc = "call_info" /\ Len(task'[t].hist) >= 2
                 \/ /\ task'[t].pc = "done"
                    /\ task'[t].outcome = "insufficient"
                    /\ task'[t].result = <<>>
                    /\ failed_requests' = failed_requests
        /\ task[t].outcome = "insufficient"
              => /\ task'[t].pc = "done"
                 /\ task'[t].result = <<>>
                 /\ task'[t].invocations = task[t].invocations
                 /\ Occurrences(failed_requests', t) = 0
      ]_vars
C17_Witness ==
    \E t \in Symbols :
        /\ task[t].outcome = "insufficient"
        /\ task[t].pc = "done"
        /\ task[t].invocations = 1
        /\ mpc = "done"

\* C14: for every preset, each pause between two consecutive batches lasts
\* a time within that preset's inter_batch_delay range.
C14_PauseWithinPresetRange ==
    mpc = "pause"
        => /\ inter_batch_delay[1] <= pause_delay
           /\ pause_delay <= inter_batch_delay[2]

\* The slices in order, end to end.
RECURSIVE Concat(_)
Concat(seqs) ==
    IF seqs = <<>> THEN <<>> ELSE seqs[1] \o Concat(Tail(seqs))
\* ceil(n / b): the least k with k * b >= n.
CeilDiv(n, b) == CHOOSE k \in 0..n : k * b >= n /\ \A j \in 0..(k - 1) : j * b < n

\* C15: a ticker list of length n is processed in exactly ceil(n / b)
\* batches, consecutive slices whose concatenation in order is the list;
\* every batch but the last has exactly b symbols and the last has 1 to b;
\* with the conservative preset 45 symbols give batches of 20, 20 and 5.
C15_BatchSlicing ==
    LET n == Len(tickers)
        b == batch_size
        k == Len(batches)
        flat == Concat(batches)
    IN  /\ Len(flat) <= n
        /\ flat = SubSeq(tickers, 1, Len(flat))
        /\ \A i \in 1..k :
              /\ Len(batches[i]) \in 1..b
              /\ Len(batches[i]) < b => (i = k /\ flat = tickers)
        /\ mpc = "display" => (flat = tickers /\ k = CeilDiv(n, b))
        /\ (mpc = "display" /\ rate_limit_preset = "conservative"
                /\ n = 45)
              => /\ max_workers = 1 /\ batch_size = 20
                 /\ [i \in 1..k |-> Len(batches[i])] = <<20, 20, 5>>
C15_Witness ==
    /\ mpc = "display"
    /\ rate_limit_preset = "conservative"
    /\ Len(tickers) = 45
    /\ Len(batches) = 3
    /\ Len(batches[3]) = 5

\* The records that the tasks returned.
Returned == {task[t].result[1] : t \in {x \in Symbols : task[x].result # <<>>}}
Sorted(q) ==
    \A i \in 1..(Len(q) - 1) : q[i].percent_change <= q[i + 1].percent_change
Rows(q) == {q[i] : i \in 1..Len(q)}

\* C16: whatever the order in which the records were aggregated, the rows of
\* the console table and the rows of the CSV file are in ascending order of
\* percent_change, and a table or file that was completed holds each
\* aggregated record once.
C16_OutputSorted ==
    /\ Sorted(console)
    /\ Sorted(csv_rows)
    /\ Rows(console) \subseteq Returned
    /\ mpc \in {"detail", "news", "save", "report", "done"}
          => (console = <<>> \/ (Rows(console) = Returned
                                    /\ Len(console) = Cardinality(Returned)))
    /\ csv_rows # <<>>
          => (Rows(csv_rows) = Returned
                /\ Len(csv_rows) = Cardinality(Returned))
C16_Witness ==
    /\ Len(csv_rows) = NumTickers
    /\ Len(console) = NumTickers
    /\ csv_rows[1].symbol = NumTickers
    /\ csv_rows[1].percent_change < csv_rows[2].percent_change

\* C19: once the universe is loaded and the batches are over, the run shows
\* the results, writes the CSV if a record qualified and reports the failure
\* list, whatever the provider returned; no exception of the result phase
\* ends the run before that.
C19_RunProducesOutput ==
    /\ mpc # "crashed"
    /\ mpc = "done"
          => /\ dropped_stocks # <<>> => csv_rows = dropped_stocks
             /\ failed_requests # <<>> => reported

\* C20: after an operator interrupt no batch after the current one is
\* started and no further ticker is submitted, and the run ends only when
\* every task that was submitted to the pool has run to its end.
C20_InterruptDrainsBatch ==
    [][/\ mpc \in {"shutdown", "interrupted"}
          => /\ mpc' \in {"shutdown", "interrupted"}
             /\ batch_num' = batch_num
             /\ \A t \in Symbols :
                   task[t].pc = "idle" => task'[t].pc = "idle"
       /\ mpc' = "interrupted"
          => \A t \in Symbols :
                /\ task'[t].pc \in {"idle", "done"}
                /\ task'[t].pc = "done" => task'[t].outcome # "none"
       /\ mpc = "interrupted" => task' = task
      ]_vars
C20_Witness ==
    /\ mpc = "interrupted"
    /\ Len(batch_tickers) = 2
    /\ \A t \in BatchSet :
          task[t].pc = "done" /\ ~task[t].collected /\ task[t].attempt = 2
    /\ \E t \in Symbols :
          t > batch_num + batch_size /\ t <= Len(tickers)
              /\ task[t].pc = "idle"

\* How the processing of a symbol ended: with its record aggregated, with no
\* record, or with its failure recorded.
EndedWith(t) ==
    LET records == Cardinality({i \in 1..Len(dropped_stocks) :
                                   dropped_stocks[i].symbol = t})
        failures == Occurrences(failed_requests, t)
    IN  {o \in {"record", "no record", "failure"} :
            \/ o = "record" /\ records = 1 /\ failures = 0
                  /\ task[t].result # <<>>
            \/ o = "no record" /\ records = 0 /\ failures = 0
                  /\ task[t].result = <<>>
            \/ o = "failure" /\ records = 0 /\ failures = 1
                  /\ task[t].result = <<>>}

\* C18: for every ticker list, and whatever each provider call returns or
\* raises (rate-limit errors on every call included), a run whose universe
\* is loaded finishes its last batch, and by then the processing of every
\* symbol has ended in exactly one of: record, no record, failure recorded.
C18_BatchPhaseTerminates ==
    (mpc = "loop")
        ~> (/\ mpc = "display"
            /\ processed_count = Len(tickers)
            /\ \A i \in 1..Len(tickers) :
                  /\ task[tickers[i]].pc = "done"
                  /\ Cardinality(EndedWith(tickers[i])) = 1)
C18_Witness ==
    /\ mpc = "display"
    /\ Len(tickers) = NumTickers
    /\ \A t \in Symbols : task[t].pc = "done"
    /\ \E t \in Symbols :
          task[t].outcome = "exhausted" /\ EndedWith(t) = {"no record"}
    /\ \E t \in Symbols : EndedWith(t) = {"record"}
    /\ \E t \in Symbols : EndedWith(t) = {"failure"}

\* C21: if the ticker source fails or yields an empty list the run ends
\* without starting a batch, without an outbound call (request_count stays
\* 0), without writing a CSV file and without raising.
C21_NoUniverseNoWork ==
    (mpc # "load" /\ (~source.found \/ source.symbols = <<>>))
        => /\ mpc = "done"
           /\ request_count = 0 /\ acquisitions = 0
           /\ batches = <<>> /\ processed_count = 0
           /\ \A t \in Threads : task[t] = IdleTask
           /\ csv_rows = <<>> /\ console = <<>>
C21_Witness ==
    /\ mpc = "done"
    /\ ~source.found
    /\ request_count = 0

\* C22: a command-line argument that, lower-cased, is not one of the four
\* preset names ends the process at the usage text: no analyzer is
\* constructed, no batch is started, no call goes out, and no other preset
\* is run in its place.
C22_UnknownPresetRejected ==
    (argv # <<>> /\ \A k \in DOMAIN PRESETS : Lower(argv[1]) # Spelling[k])
        => /\ mpc \in {"main", "wrapper", "usage"}
           /\ rate_limit_preset = NoPreset /\ max_workers = 0
           /\ request_count = 0 /\ acquisitions = 0
           /\ batches = <<>> /\ batch_num = 0
           /\ \A t \in Threads : task[t] = IdleTask
C22_Witness ==
    /\ mpc = "usage"
    /\ argv = <<<<"f", "a", "s", "t">>>>
    /\ rate_limit_preset = NoPreset

\* C23: the output file is written only if a record qualified: in a run
\* whose aggregated record list is empty save_results_to_csv is never
\* called.
C23_NoRecordsNoFile ==
    dropped_stocks = <<>> => (saves = 0 /\ csv_rows = <<>>)
C23_Witness ==
    /\ mpc = "done"
    /\ dropped_stocks = <<>>
    /\ saves = 0

\* C24: the filtered list has no duplicates, is sorted ascending, and
\* filtering it again returns exactly the same list.
C24_FilterCanonical ==
    /\ mpc \in {"filtered", "refiltered"}
          => \A i, j \in 1..Len(valid_tickers) :
                i < j => StrLess(valid_tickers[i], valid_tickers[j])
    /\ mpc = "refiltered" => refiltered = valid_tickers
C24_Witness ==
    /\ mpc = "refiltered"
    /\ Len(all_tickers) = 2
    /\ Len(valid_tickers) = 2
    /\ valid_tickers[1] = replace(all_tickers[2], ".", "-")
    /\ valid_tickers[1] # all_tickers[2]
    /\ refiltered = valid_tickers

\* C25: every returned symbol is non-empty, at most 6 characters long,
\* starts with a letter and consists of letters, digits and hyphens only.
C25_SymbolsValid ==
    mpc \in {"filtered", "refiltered"}
        => \A i \in 1..Len(valid_tickers) :
            LET t == valid_tickers[i] IN
            /\ t # <<>>
            /\ Len(t) <= 6
            /\ t[1] \in Letters
            /\ \A k \in 1..Len(t) : t[k] \in Letters \cup Digits \cup {"-"}

\* C26: a ticker made of letters, a dot and a class letter is in the
\* filtered list in hyphen form.
C26_DotClassNormalized ==
    mpc \in {"filtered", "refiltered"}
        => \A i \in 1..Len(all_tickers) :
            LET raw == all_tickers[i] IN
            (/\ Len(raw) \in 3..6
             /\ raw[Len(raw) - 1] = "."
             /\ \A k \in (1..Len(raw)) \ {Len(raw) - 1} : raw[k] \in Letters)
                => \E j \in 1..Len(valid_tickers) :
                    valid_tickers[j] = replace(raw, ".", "-")

\* C27: with inputs that are numbers or absent, debt_to_equity is total
\* debt over total equity rounded to 2 decimals whenever total equity is
\* known and non-zero, 0 included when total debt is zero or absent, and
\* null when total equity is zero or unknown; a derived ratio is null when
\* its input is absent and is not null when its input is a number.
C27_RatiosNullOnlyIfAbsent ==
    LET info == calc.info
        Debt == IF info.totalDebt.kind = "num" THEN info.totalDebt.v ELSE 0
        Derived == {<<"trailingPE", "pe_ratio">>,
                    <<"dividendYield", "dividend_yield">>,
                    <<"bookValue", "book_value">>}
    IN
    (/\ calc.stage \in {"ratios", "returned"}
     /\ info.trailingPE.kind # "str"
     /\ info.totalDebt.kind # "none")
        => LET r == calc.fundamental_ratios[1] IN
           /\ (info.totalStockholderEquity.kind = "num"
                  /\ info.totalStockholderEquity.v # 0)
                 => r.debt_to_equity =
                      Num(Nearest(Debt * 100, info.totalStockholderEquity.v))
           /\ (info.totalStockholderEquity.kind \in {"missing", "none"}
                  \/ info.totalStockholderEquity = Num(0))
                 => r.debt_to_equity = None
           /\ \A d \in Derived :
                /\ info[d[1]].kind \in {"missing", "none"} => r[d[2]] = None
                /\ info[d[1]].kind = "num" => r[d[2]] # None

\* C28: a qualifying symbol with 2 to 13 bars still yields a record, and
\* its five indicator fields are all null.
C28_ShortHistoryNullIndicators ==
    (calc.stage # "off" /\ Len(calc.hist) \in 2..13)
        => /\ calc.stage \in {"indicators", "ratios", "returned"}
                => calc.technical_indicators = <<NullIndicators>>
           /\ calc.stage = "returned"
                => /\ calc.result # <<>>
                   /\ \A f \in DOMAIN NullIndicators :
                        calc.result[1][f] = None
           /\ failed_requests = <<>>
C28_Witness ==
    /\ calc.stage = "returned"
    /\ Len(calc.hist) = 13
    /\ ~calc.lib.raises
    /\ calc.result # <<>>
    /\ calc.result[1].rsi = None
    /\ calc.result[1].obv = None

\* C29: if the indicator computation raises all five indicator fields are
\* null, if the ratio computation raises (total debt null with non-zero
\* equity, a ratio given as text) all nine ratio fields are null, the
\* free cash flow included; the record is produced all the same with its
\* other fields, and the symbol is not put on the failure list.
C29_ErrorsContainedPerGroup ==
    LET info == calc.info
        RatioError ==
            \/ /\ info.totalDebt = None
               /\ info.totalStockholderEquity.kind = "num"
               /\ info.totalStockholderEquity.v # 0
            \/ info.trailingPE = Str
    IN
    /\ (calc.stage \in {"indicators", "ratios", "returned"}
          /\ calc.lib.raises)
            => calc.technical_indicators = <<NullIndicators>>
    /\ (calc.stage \in {"ratios", "returned"} /\ RatioError)
            => calc.fundamental_ratios = <<NullRatios>>
    /\ calc.stage = "returned"
            => /\ calc.result # <<>>
               /\ calc.result[1].symbol = tickers[1]
               /\ calc.result[1].percent_change = PercentChange(calc.hist)
               /\ calc.lib.raises
                    => \A f \in DOMAIN NullIndicators :
                          calc.result[1][f] = None
               /\ RatioError
                    => \A f \in DOMAIN NullRatios : calc.result[1][f] = None
               /\ (calc.lib.raises /\ ~RatioError)
                    => calc.result[1].free_cash_flow
                          = Get(info, "freeCashflow", None)
    /\ calc.stage # "off" => failed_requests = <<>>
C29_Witness ==
    /\ calc.stage = "returned"
    /\ Len(calc.hist) = 14
    /\ calc.lib.raises
    /\ calc.info.totalDebt = None
    /\ calc.info.totalStockholderEquity = Num(300)
    /\ calc.info.freeCashflow = Num(7)
    /\ calc.result # <<>>
    /\ calc.result[1].free_cash_flow = None
    /\ calc.result[1].symbol = 1

\* C30: the preset configuration is read-only after construction: no step
\* of a run changes max_workers, batch_size, delay_range or
\* inter_batch_delay, and they stay the values of the PRESETS entry they
\* were loaded from.
C30_ConfigReadOnly ==
    /\ [](/\ max_workers = PRESETS[rate_limit_preset].max_workers
          /\ batch_size = Min(PRESETS[rate_limit_preset].batch_size, MaxBatch)
          /\ delay_range = PRESETS[rate_limit_preset].delay_range
          /\ inter_batch_delay = PRESETS[rate_limit_preset].inter_batch_delay)
    /\ [][/\ max_workers' = max_workers
          /\ batch_size' = batch_size
          /\ delay_range' = delay_range
          /\ inter_batch_delay' = inter_batch_delay
          /\ rate_limit_preset' = rate_limit_preset]_vars
C30_Witness ==
    /\ mpc = "done"
    /\ rate_limit_preset = "aggressive"
    /\ inter_batch_delay = <<10, 30>>
    /\ Len(batches) = 2
    /\ saves = 1
    /\ \E t \in Symbols : task[t].backoffs > 0

\* C31: for the same symbol, threshold, price history and descriptive info,
\* returned without error, Fortune5000Analyzer.analyze_single_stock and
\* SP500Analyzer.analyze_single_stock both return no record or both return
\* records with the same field values.
C31_VariantsAgree ==
    \A t \in Symbols :
        (task[t].pc = "done" /\ task[t].resp # <<>>)
            => task[t].result =
                 sp500_analyze_single_stock(
                     t, task[t].resp[1],
                     IF Len(task[t].resp) = 2 THEN task[t].resp[2]
                     ELSE [longName |-> Missing, marketCap |-> Missing],
                     drop_threshold)
C31_Witness ==
    \E t \in Symbols :
        /\ task[t].pc = "done"
        /\ Len(task[t].resp) = 2
        /\ task[t].resp[2].longName = Missing
        /\ task[t].result # <<>>
        /\ task[t].result[1].percent_change = drop_threshold
        /\ task[t].result
              = sp500_analyze_single_stock(t, task[t].resp[1],
                                           task[t].resp[2], drop_threshold)

\* C32: a process started after an interrupted one continues where that
\* one stopped: it keeps the records of the batches completed before the
\* interrupt and does not fetch the symbols of those batches again.
C32_ResumeAfterInterrupt ==
    prior.ran
        => /\ mpc # "load"
              => \E rest \in {SubSeq(dropped_stocks, i, Len(dropped_stocks)) :
                                i \in 1..(Len(dropped_stocks) + 1)} :
                    dropped_stocks = prior.dropped_stocks \o rest
           /\ \A k \in 1..Len(prior.batches) :
                \A i \in 1..Len(prior.batches[k]) :
                    task[prior.batches[k][i]].invocations = 0

\* C33: a run with B batches makes exactly B - 1 inter-batch pauses; pause
\* i begins when batch i is over and ends before a symbol of batch i + 1 is
\* submitted, and there is no pause after the last batch.
C33_PausesAtBoundaries ==
    /\ [](/\ mpc = "pause"
               => /\ pauses = Len(batches)
                  /\ Len(batches) < total_batches
                  /\ \A i \in 1..Len(tickers) :
                        /\ i <= batch_num + batch_size
                              => /\ task[tickers[i]].pc = "done"
                                 /\ task[tickers[i]].collected
                        /\ i > batch_num + batch_size
                              => task[tickers[i]].pc = "idle"
          /\ mpc = "display"
               => /\ Len(batches) = total_batches
                  /\ pauses = Len(batches) - 1)
    /\ [][pauses' # pauses
            => /\ pauses' = pauses + 1
               /\ mpc = "collect" /\ mpc' = "pause"
               /\ Len(batches') = pauses']_vars
C33_Witness ==
    /\ mpc = "display"
    /\ Len(batches) = 2
    /\ pauses = 1
    /\ \E t \in Symbols : task[t].outcome = "record"

\* C34: every symbol has at most one record among the aggregated records
\* and at most one entry in the failure list, never both, and once its
\* batch is merged exactly one outcome (record, failure, or neither); the
\* failure list only grows, at its end.
C34_OutcomeExclusive ==
    /\ [](\A t \in Symbols :
            LET records(s) == Cardinality({i \in 1..Len(dropped_stocks) :
                                              dropped_stocks[i].symbol = s})
                failures(s) == Cardinality({i \in 1..Len(failed_requests) :
                                               failed_requests[i] = s})
            IN
            /\ records(t) + failures(t) <= 1
            /\ (t <= Len(tickers) /\ t <= processed_count)
                  => /\ task[t].pc = "done"
                     /\ records(t) = (IF task[t].outcome = "record"
                                      THEN 1 ELSE 0)
                     /\ failures(t) = (IF task[t].outcome = "error"
                                       THEN 1 ELSE 0)
                     /\ task[t].outcome \in {"record", "error", "no_drop",
                                              "insufficient", "exhausted"})
    /\ [][Len(failed_requests') >= Len(failed_requests)
          /\ SubSeq(failed_requests', 1, Len(failed_requests))
                = failed_requests]_vars
C34_Witness ==
    /\ mpc = "display"
    /\ Len(batches) = 2
    /\ Len(failed_requests) = 2
    /\ Len(dropped_stocks) = 1
    /\ dropped_stocks[1].symbol \notin {failed_requests[1], failed_requests[2]}

\* C35: with one worker (max_workers = 1) every acquisition draws its
\* spacing within delay_range and its call starts no earlier than that
\* spacing after the last_request_time the acquisition before recorded;
\* the first acquisition of an analyzer does not wait.
C35_SequentialSpacing ==
    [][max_workers = 1
        => \A t \in Symbols :
            /\ (task[t].pc = "acquire" /\ task'[t].pc # "acquire")
                  => /\ delay_range[1] <= task'[t].drawn
                     /\ task'[t].drawn <= delay_range[2]
                     /\ acquisitions = 0 => task'[t].pc = "stamp"
            /\ (task[t].pc = "stamp" /\ task'[t].pc = "count")
                  => /\ acquisitions' = acquisitions + 1
                     /\ acquisitions >= 1 => last_gap' >= task[t].drawn
      ]_vars
C35_Witness ==
    /\ max_workers = 1
    /\ acquisitions = 2
    /\ last_gap = delay_range[2]
    /\ \E t \in Symbols : task[t].pc = "count" /\ task[t].attempt = 0

\* C36: an analyzer constructed with a preset name that is no key of
\* PRESETS runs with the balanced configuration (max_workers 3, batch_size
\* 50) and still holds the unknown name as its rate_limit_preset.
C36_UnknownNameRunsBalanced ==
    rate_limit_preset \notin
            {"aggressive", "balanced", "conservative", "ultra_conservative"}
        => /\ max_workers = 3
           /\ batch_size = 50
           /\ delay_range = <<5, 20>>
           /\ inter_batch_delay = <<20, 50>>
           /\ rate_limit_preset \in UnknownNames
           /\ \A k \in 1..Len(batches) : Len(batches[k]) <= 50
           /\ mpc = "display" => Len(batches) = 1
C36_Witness ==
    /\ rate_limit_preset = "turbo"
    /\ batch_size = 50
    /\ mpc = "display"
    /\ Len(tickers) = MaxUniverse
    /\ batches = <<tickers>>

\* C37: under each of the four presets the retry wrapper allows the same
\* three attempts and backs off from the same base of one second: attempt
\* k (from 0) waits 2^k seconds plus a jitter of at most one second, and a
\* call that is rate limited throughout ends after its third attempt.
C37_RetryIgnoresPreset ==
    \A t \in Symbols :
        /\ task[t].attempt \in 0..2
        /\ task[t].invocations <= 3
        /\ task[t].pc = "backoff"
            => \E k \in 0..2 :
                /\ task[t].attempt = k
                /\ task[t].delay \in (10 * 2 ^ k)..(10 * 2 ^ k + 10)
        /\ task[t].outcome = "exhausted"
            => task[t].invocations = 3 /\ task[t].attempt = 2
C37_Witness ==
    /\ rate_limit_preset = "ultra_conservative"
    /\ \E t \in Symbols : task[t].outcome = "exhausted"
    /\ \E t \in Symbols :
          task[t].pc = "backoff" /\ task[t].attempt = 1 /\ task[t].delay = 30

\* C38: the outcome of a run is a function of the ticker list, the
\* threshold and what the provider answered each symbol, whatever the
\* interleaving of the workers and the order of completion: once the batch
\* loop is over, dropped_stocks holds exactly one record for each ticker
\* whose answer qualifies, built from that answer alone, the failure list
\* holds exactly the tickers whose call ended in an error that is no rate
\* limit, and after the sort the records ascend by percent_change, so that
\* only records of equal percent_change are ordered by the schedule.
C38_AnswerOf(t) == <<task[t].resp, task[t].error>>
C38_RecordsOf(answers) ==
    {ReportRecord(t, answers[t][1][1], answers[t][1][2]) :
        t \in {s \in DOMAIN answers :
                  /\ Len(answers[s][1]) = 2
                  /\ PercentChange(answers[s][1][1]) <= drop_threshold}}
C38_FailuresOf(answers) ==
    {t \in DOMAIN answers :
        answers[t][2] \notin {NoError, Err429, ErrRateLimited}}
C38_ScheduleIndependent ==
    mpc \in {"display", "detail", "news", "save", "report", "crashed", "done"}
        => LET asked == {tickers[i] : i \in 1..Len(tickers)}
               answers == [t \in asked |-> C38_AnswerOf(t)]
               n == Len(dropped_stocks)
           IN  /\ {dropped_stocks[i] : i \in 1..n} = C38_RecordsOf(answers)
               /\ n = Cardinality(C38_RecordsOf(answers))
               /\ {failed_requests[i] : i \in 1..Len(failed_requests)}
                      = C38_FailuresOf(answers)
               /\ mpc # "display"
                      => \A i, j \in 1..n :
                            dropped_stocks[i].percent_change
                                < dropped_stocks[j].percent_change => i < j
C38_Witness ==
    /\ mpc = "detail"
    /\ Len(dropped_stocks) = 2
    /\ dropped_stocks[1].symbol > dropped_stocks[2].symbol
    /\ dropped_stocks[1].percent_change = dropped_stocks[2].percent_change
    /\ Len(failed_requests) = 1
    /\ max_workers > 1

\* C39: every attempt that fails with a rate-limit error is followed by a
\* backoff sleep, the last permitted one included: the wrapper has begun as
\* many backoff sleeps as attempts have ended rate limited, and it gives up
\* only out of the third sleep, of 4 to 5 seconds, once that sleep is over.
C39_RateLimited(t) ==
    task[t].invocations
        - (IF task[t].pc \in {"call_hist", "call_info"} THEN 1 ELSE 0)
        - (IF task[t].outcome \in {"record", "no_drop", "insufficient",
                                   "error"}
           THEN 1 ELSE 0)
C39_BackoffAfterEveryRateLimit ==
    /\ [](\A t \in Symbols :
            /\ task[t].backoffs = C39_RateLimited(t)
            /\ task[t].outcome = "exhausted"
                => task[t].backoffs = 3 /\ task[t].invocations = 3)
    /\ [][\A t \in Symbols :
            /\ (task[t].pc \in {"call_hist", "call_info"}
                    /\ task'[t].pc \notin {"call_hist", "call_info"}
                    /\ task'[t].error \in {Err429, ErrRateLimited})
                => /\ task'[t].pc = "backoff"
                   /\ task'[t].wake = task'[t].delay
                   /\ task'[t].delay >= 10
            /\ (task[t].outcome # "exhausted"
                    /\ task'[t].outcome = "exhausted")
                => /\ task[t].pc = "backoff"
                   /\ task[t].attempt = 2
                   /\ task[t].delay \in 40..50
                   /\ task[t].wake = 0
       ]_vars
C39_Witness ==
    /\ timing
    /\ \E t \in Symbols :
        /\ task[t].outcome = "exhausted"
        /\ task[t].backoffs = 3
        /\ task[t].invocations = 3

====
